---------------------------- MODULE Spec2Model ----------------------------
(***************************************************************************)
(* Model of the trust and scoring engine of mcli: the score calculators    *)
(* (lib.ts computeAgentScore, review.ts computeReviewScore), the schema    *)
(* validators (lib.ts validateAgentScores, validateTool, validateRegistry) *)
(* the verification engine (verify.ts verifyTool), the review aggregator   *)
(* (review.ts aggregateReviews) and the review wizard (review.ts           *)
(* runReviewWizard).                                                       *)
(*                                                                         *)
(* The engine's functions are pure, so their specifications draw the       *)
(* arguments of one call in the initial state and the actions run the      *)
(* call.  verifyTool is asynchronous: it has one step per suspension       *)
(* point (the fetch, the reading of the body).  The wizard works on two    *)
(* files, which outlive a run.                                             *)
(***************************************************************************)
EXTENDS Integers, Sequences, FiniteSets, TLC

VARIABLES
    op,        \* the function that is called
    pc,        \* position of the call: "call", "fetching", "reading", "done"
    scores,    \* argument of computeAgentScore / computeReviewScore
    score,     \* their return value
    candidate, \* argument of validateAgentScores / validateTool / validateRegistry,
               \* and the tool given to verifyTool
    result,    \* the validators' outcome: [threw, valid, errors]
    now,       \* verifyTool: the time of the evaluation
    checks,    \* verifyTool: its local checks object
    fetched,   \* verifyTool: the URLs the fetcher was called with
    lookup,    \* verifyTool: how far the request got: "none", "pending",
               \* "rejected", "status", "reading", "unreadable", "read"
    response,  \* verifyTool: the response the fetcher resolved with
    data,      \* verifyTool: the body response.json() resolved with
    verification, \* verifyTool: its outcome: [returned, threw, slug, checks,
               \* score, recommendation]
    reviews,   \* argument of aggregateReviews
    aggregate, \* its return value
    agentIdFile,  \* ~/.mcli/agent-id: [exists, text]
    pendingFile,  \* ~/.mcli/pending-reviews.json: [exists, parses, reviews]
    wizard,    \* runReviewWizard: the run in progress or the last one:
               \* [slug, agentId, outcome, error]
    answers,   \* runReviewWizard: what the prompts resolved with
    clock,     \* runReviewWizard: number of runs started, the time of day
    registryFile, \* loadRegistry: the file at path: [exists, readable, parses, doc]
    localCache,   \* ~/.mcli/registry.json: [exists, doc]
    remote,    \* updateRegistry: what the request gave: [settled, rejected, ok,
               \* status, parses, doc]
    outcome,   \* loadRegistry, updateRegistry: [returned, error, message, doc]
    toolsFile, \* ~/.mcli/pending-tools.json: [exists, parses, tools]
    procs      \* two wizard processes at once: [pc, slug, agentId, record,
               \* read, error] of each

vars ==
    <<op, pc, scores, score, candidate, result, now, checks, fetched, lookup,
      response, data, verification, reviews, aggregate, agentIdFile, pendingFile,
      wizard, answers, clock, registryFile, localCache, remote, outcome,
      toolsFile, procs>>

overlapVars == <<toolsFile, procs>>

registryVars == <<registryFile, localCache, remote, outcome>>

reviewVars == <<reviews, aggregate, agentIdFile, pendingFile, wizard, answers, clock>>

verifyVars == <<now, checks, fetched, lookup, response, data, verification>>

(***************************************************************************)
(* Numbers.  A JavaScript number that matters here is a rational n/d with  *)
(* d > 0.  Math.round(x) is floor(x + 0.5).                                *)
(***************************************************************************)
MathRound(n, d) == (2 * n + d) \div (2 * d)

(***************************************************************************)
(* Score calculator                                                        *)
(***************************************************************************)
AgentDims ==
    {"jsonOutput", "nonInteractive", "tokenEfficiency", "safetyFeatures",
     "pipelineFriendly"}

ReviewDims ==
    {"jsonParseable", "errorClarity", "authSimplicity", "idempotency",
     "docsSufficient"}

computeAgentScore_EqualWeights(s) ==
    LET weighted == s.jsonOutput * 3 + s.nonInteractive * 3
                    + s.tokenEfficiency * 1 + s.safetyFeatures * 1
                    + s.pipelineFriendly * 1
    IN  MathRound(weighted * 10, 50)

computeAgentScore_InvertedSafety(s) ==
    LET weighted == s.jsonOutput * 3 + s.nonInteractive * 3
                    + s.tokenEfficiency * 2 + (6 - s.safetyFeatures) * 1
                    + s.pipelineFriendly * 1
    IN  MathRound(weighted * 10, 50)

\* lib.ts computeAgentScore: Math.round((weighted / 50) * 10)
computeAgentScore(s) ==
    LET weighted == s.jsonOutput * 3 + s.nonInteractive * 3
                    + s.tokenEfficiency * 2 + s.safetyFeatures * 1
                    + s.pipelineFriendly * 1
    IN  MathRound(weighted * 10, 50)

\* review.ts computeReviewScore: Math.round((sum / 25) * 10)
computeReviewScore(s) ==
    LET sum == s.jsonParseable + s.errorClarity + s.authSimplicity
               + s.idempotency + s.docsSufficient
    IN  MathRound(sum * 10, 25)

\* The calculators assume validated input: every dimension an integer 1..5.
AgentVectors == [AgentDims -> 1..5]

ReviewVectors == [ReviewDims -> 1..5]

(***************************************************************************)
(* JavaScript values.  A value is a record [t, n, d, s]: t is its kind, a  *)
(* number is the rational n/d (d > 0), a boolean has n = 1 for true, a     *)
(* string is the sequence s of its characters, an array has n elements.    *)
(* An object carries its properties as further fields.                     *)
(***************************************************************************)
Undef == [t |-> "undefined", n |-> 0, d |-> 1, s |-> <<>>]

Null == [t |-> "null", n |-> 0, d |-> 1, s |-> <<>>]

Bool(b) == [t |-> "boolean", n |-> IF b THEN 1 ELSE 0, d |-> 1, s |-> <<>>]

Num(n, d) == [t |-> "number", n |-> n, d |-> d, s |-> <<>>]

IntV(k) == Num(k, 1)

NaN == [t |-> "nan", n |-> 0, d |-> 1, s |-> <<>>]

Str(s) == [t |-> "string", n |-> 0, d |-> 1, s |-> s]

Arr(len) == [t |-> "array", n |-> len, d |-> 1, s |-> <<>>]

Obj == [t |-> "object", n |-> 0, d |-> 1, s |-> <<>>]

\* typeof v
TypeOf(v) ==
    CASE v.t \in {"null", "array", "object"} -> "object"
      [] v.t = "nan" -> "number"
      [] OTHER -> v.t

\* Boolean(v), the truthiness that !v and v || w test
Truthy(v) ==
    CASE v.t \in {"undefined", "null", "nan"} -> FALSE
      [] v.t = "boolean" -> v.n = 1
      [] v.t = "number" -> v.n # 0
      [] v.t = "string" -> v.s # <<>>
      [] OTHER -> TRUE

\* o[f] for a value that passed the typeof o === 'object' test: an array
\* has none of the properties read here
Prop(o, f) == IF o.t = "object" THEN o[f] ELSE Undef

\* v < k and v > k for a value with typeof v === 'number' (false for NaN)
NumLt(v, k) == v.t = "number" /\ v.n < k * v.d

NumGt(v, k) == v.t = "number" /\ v.n > k * v.d

\* Number.isInteger(v)
IsInteger(v) == v.t = "number" /\ v.n % v.d = 0

IsArray(v) == v.t = "array"

Digit(k) == <<"0", "1", "2", "3", "4", "5", "6", "7", "8", "9">>[k + 1]

RECURSIVE Digits(_)
Digits(k) == IF k < 10 THEN <<Digit(k)>> ELSE Digits(k \div 10) \o <<Digit(k % 10)>>

\* String(v), the conversion a template literal applies, for the values the
\* model passes to it: strings, booleans, NaN, non-negative integers, null,
\* undefined, plain objects and empty arrays
ToStr(v) ==
    CASE v.t = "string" -> v.s
      [] v.t = "boolean" ->
             IF v.n = 1 THEN <<"t", "r", "u", "e">> ELSE <<"f", "a", "l", "s", "e">>
      [] v.t = "nan" -> <<"N", "a", "N">>
      [] v.t = "number" -> Digits(v.n \div v.d)
      [] v.t = "null" -> <<"n", "u", "l", "l">>
      [] v.t = "undefined" -> <<"u", "n", "d", "e", "f", "i", "n", "e", "d">>
      [] v.t = "array" -> <<>>
      [] OTHER -> <<"[", "o", "b", "j", "e", "c", "t", " ", "O", "b", "j", "e", "c", "t", "]">>

(***************************************************************************)
(* Schema validator                                                        *)
(***************************************************************************)
\* one entry of errors[]: the message, the value interpolated into it and,
\* for a registry's per-tool entry, the joined messages of the tool
Err(msg) == [msg |-> msg, arg |-> <<>>, sub |-> <<>>]

ErrIf(cond, msg) == IF cond THEN <<Err(msg)>> ELSE <<>>

Returned(errors) == [threw |-> FALSE, valid |-> errors = <<>>, errors |-> errors]

Rejected(msg) == [threw |-> FALSE, valid |-> FALSE, errors |-> <<Err(msg)>>]

\* a TypeError leaves the function: there is no return value
Thrown == [threw |-> TRUE, valid |-> FALSE, errors |-> <<>>]

AgentDimOrder ==
    <<"jsonOutput", "nonInteractive", "tokenEfficiency", "safetyFeatures",
      "pipelineFriendly">>

validateAgentScores_NoIntegerCheck(sc) ==
    IF ~Truthy(sc) \/ TypeOf(sc) # "object"
    THEN Rejected("agentScores must be an object")
    ELSE LET bad(dim) ==
                 LET val == Prop(sc, dim)
                 IN  TypeOf(val) # "number" \/ NumLt(val, 1) \/ NumGt(val, 5)
             RECURSIVE loop(_)
             loop(i) ==
                 IF i > Len(AgentDimOrder) THEN <<>>
                 ELSE ErrIf(bad(AgentDimOrder[i]),
                            "agentScores." \o AgentDimOrder[i] \o " must be an integer 1-5")
                      \o loop(i + 1)
         IN  Returned(loop(1))

\* lib.ts validateAgentScores
validateAgentScores(sc) ==
    IF ~Truthy(sc) \/ TypeOf(sc) # "object"
    THEN Rejected("agentScores must be an object")
    ELSE LET bad(dim) ==
                 LET val == Prop(sc, dim)
                 IN  TypeOf(val) # "number" \/ NumLt(val, 1) \/ NumGt(val, 5)
                     \/ ~IsInteger(val)
             RECURSIVE loop(_)
             loop(i) ==
                 IF i > Len(AgentDimOrder) THEN <<>>
                 ELSE ErrIf(bad(AgentDimOrder[i]),
                            "agentScores." \o AgentDimOrder[i] \o " must be an integer 1-5")
                      \o loop(i + 1)
         IN  Returned(loop(1))

\* the characters of [a-z0-9-]
SlugChars ==
    {"a", "b", "c", "d", "e", "f", "g", "h", "i", "j", "k", "l", "m", "n", "o",
     "p", "q", "r", "s", "t", "u", "v", "w", "x", "y", "z", "0", "1", "2", "3",
     "4", "5", "6", "7", "8", "9", "-"}

\* /^[a-z0-9-]+$/.test(s)
SlugRegexTest(s) == Len(s) >= 1 /\ \A i \in 1..Len(s) : s[i] \in SlugChars

validTiers ==
    {<<"v", "e", "r", "i", "f", "i", "e", "d">>,
     <<"c", "o", "m", "m", "u", "n", "i", "t", "y">>,
     <<"u", "n", "v", "e", "r", "i", "f", "i", "e", "d">>}

\* typeof x !== 'string' || !x
NotNonEmptyString(x) == TypeOf(x) # "string" \/ ~Truthy(x)

NotBoolean(x) == TypeOf(x) # "boolean"

\* !x || typeof x !== 'object'
NotObject(x) == ~Truthy(x) \/ TypeOf(x) # "object"

\* the messages validateTool pushes for an object candidate, in the order of
\* the code
validateToolErrors(tool) ==
    LET slug == Prop(tool, "slug")
        agentScore == Prop(tool, "agentScore")
        tier == Prop(tool, "tier")
        categories == Prop(tool, "categories")
        v == Prop(tool, "vendor")
        c == Prop(tool, "capabilities")
    IN  ErrIf(NotNonEmptyString(slug), "Missing or invalid field: slug")
     \o ErrIf(NotNonEmptyString(Prop(tool, "name")),
              "Missing or invalid field: name")
     \o ErrIf(NotNonEmptyString(Prop(tool, "description")),
              "Missing or invalid field: description")
     \o ErrIf(TypeOf(slug) = "string" /\ ~SlugRegexTest(slug.s),
              "Slug must be lowercase alphanumeric with hyphens only")
     \o ErrIf(TypeOf(agentScore) # "number" \/ NumLt(agentScore, 1)
                  \/ NumGt(agentScore, 10),
              "agentScore must be a number between 1 and 10")
     \o ErrIf(~(tier.t = "string" /\ tier.s \in validTiers),
              "tier must be one of: verified, community, unverified")
     \o ErrIf(~IsArray(categories) \/ categories.n = 0,
              "categories must be a non-empty array")
     \o (IF NotObject(v) THEN <<Err("vendor must be an object")>>
         ELSE ErrIf(NotNonEmptyString(Prop(v, "name")), "vendor.name is required")
           \o ErrIf(NotNonEmptyString(Prop(v, "domain")),
                    "vendor.domain is required")
           \o ErrIf(NotBoolean(Prop(v, "verified")),
                    "vendor.verified must be boolean"))
     \o ErrIf(NotObject(Prop(tool, "install")), "install must be an object")
     \o (IF NotObject(c) THEN <<Err("capabilities must be an object")>>
         ELSE ErrIf(NotBoolean(Prop(c, "jsonOutput")),
                    "capabilities.jsonOutput must be boolean")
           \o ErrIf(NotBoolean(Prop(c, "idempotent")),
                    "capabilities.idempotent must be boolean")
           \o ErrIf(NotBoolean(Prop(c, "interactive")),
                    "capabilities.interactive must be boolean")
           \o ErrIf(NotBoolean(Prop(c, "streaming")),
                    "capabilities.streaming must be boolean")
           \o ErrIf(~IsArray(Prop(c, "auth")),
                    "capabilities.auth must be an array"))

validateTool_RequiresRepo(tool) ==
    IF NotObject(tool) THEN Rejected("Tool must be an object")
    ELSE Returned(validateToolErrors(tool)
                  \o ErrIf(NotNonEmptyString(Prop(tool, "repo")),
                           "Missing or invalid field: repo"))

\* lib.ts validateTool
validateTool(tool) ==
    IF NotObject(tool) THEN Rejected("Tool must be an object")
    ELSE Returned(validateToolErrors(tool))

Unknown == <<"u", "n", "k", "n", "o", "w", "n">>

\* lib.ts validateRegistry.  Reading t.slug of a null or undefined entry is a
\* TypeError, which nothing catches.
validateRegistry(registry) ==
    IF NotObject(registry) THEN Rejected("Registry must be an object")
    ELSE
    LET versionErrors ==
            ErrIf(TypeOf(Prop(registry, "version")) # "string",
                  "Registry must have a version string")
        tools == Prop(registry, "tools")
        RECURSIVE loop(_, _, _)
        loop(i, slugs, errors) ==
            IF i > Len(tools.items) THEN Returned(errors)
            ELSE
            LET tool == tools.items[i]
            IN  IF tool.t \in {"null", "undefined"} THEN Thrown
                ELSE
                LET slug == Prop(tool, "slug")
                    isString == TypeOf(slug) = "string"
                    duplicate ==
                        IF isString /\ slug.s \in slugs
                        THEN <<[msg |-> "Duplicate slug: ", arg |-> slug.s,
                                sub |-> <<>>]>>
                        ELSE <<>>
                    toolValidation == validateTool(tool)
                    invalid ==
                        IF ~toolValidation.valid
                        THEN <<[msg |-> "Tool",
                                arg |-> IF Truthy(slug) THEN ToStr(slug) ELSE Unknown,
                                sub |-> toolValidation.errors]>>
                        ELSE <<>>
                IN  loop(i + 1,
                         IF isString THEN slugs \cup {slug.s} ELSE slugs,
                         errors \o duplicate \o invalid)
    IN  IF ~IsArray(tools)
        THEN [threw |-> FALSE, valid |-> FALSE,
              errors |-> versionErrors \o <<Err("Registry must have a tools array")>>]
        ELSE loop(1, {}, versionErrors)

(***************************************************************************)
(* Arguments of the calls.  Objects of one kind share one record shape: a  *)
(* property that is absent reads as undefined.                             *)
(***************************************************************************)
VendorProps == [name |-> Undef, domain |-> Undef, verified |-> Undef]

CapabilityProps ==
    [jsonOutput |-> Undef, idempotent |-> Undef, interactive |-> Undef,
     streaming |-> Undef, auth |-> Undef]

\* types.ts InstallMethods
InstallKeys == {"brew", "apt", "npm", "cargo", "go", "binary", "script"}

InstallProps == [m |-> [k \in InstallKeys |-> Undef]]

ScoreProps == [dim \in AgentDims |-> Undef]

AsVendor(v) == v @@ VendorProps

AsCapabilities(v) == v @@ CapabilityProps

AsInstall(v) == v @@ InstallProps

AsScores(v) == v @@ ScoreProps

ToolProps ==
    [slug |-> Undef, name |-> Undef, description |-> Undef, agentScore |-> Undef,
     tier |-> Undef, categories |-> Undef, vendor |-> AsVendor(Undef),
     install |-> AsInstall(Undef), capabilities |-> AsCapabilities(Undef),
     repo |-> Undef, docs |-> Undef, agentScores |-> AsScores(Undef)]

AsTool(v) == v @@ ToolProps

AsArray(items) == [items |-> items] @@ Arr(Len(items))

AsTools(v) == v @@ [items |-> <<>>]

RegistryProps == [version |-> Undef, tools |-> AsTools(Undef)]

AsRegistry(v) == v @@ RegistryProps

Install(brew, npm) ==
    [m |-> [k \in InstallKeys |->
                 IF k = "brew" THEN brew ELSE IF k = "npm" THEN npm ELSE Undef]]
    @@ Obj

GhSlug == <<"g", "h">>

GithubDomain == <<"g", "i", "t", "h", "u", "b", ".", "c", "o", "m">>

GhRepo ==
    <<"h", "t", "t", "p", "s", ":", "/", "/", "g", "i", "t", "h", "u", "b", ".",
      "c", "o", "m", "/", "g", "i", "t", "h", "u", "b", "/", "g", "h">>

\* a record every rule of validateTool accepts (the createTool fixture of the
\* tests), without the optional repo, docs and agentScores
baseTool ==
    [slug |-> Str(GhSlug),
     name |-> Str(<<"G", "H">>),
     description |-> Str(<<"c", "l", "i">>),
     agentScore |-> IntV(8),
     tier |-> Str(<<"v", "e", "r", "i", "f", "i", "e", "d">>),
     categories |-> Arr(1),
     vendor |-> [name |-> Str(<<"G", "H">>), domain |-> Str(GithubDomain),
                 verified |-> Bool(TRUE)] @@ Obj,
     install |-> Install(Str(GhSlug), Undef),
     capabilities |-> [jsonOutput |-> Bool(TRUE), idempotent |-> Bool(TRUE),
                       interactive |-> Bool(FALSE), streaming |-> Bool(FALSE),
                       auth |-> Arr(1)] @@ Obj]
    @@ AsTool(Obj)

\* values that are no tool, registry or score object at all
NonObjects ==
    {Undef, Null, Str(GhSlug), Str(<<>>), IntV(5), IntV(0), Bool(TRUE), NaN}

\* values a score dimension takes in the candidates: absent, 0, 1, 3.5, 5, 6,
\* NaN and the string "3"
DimValues ==
    {Undef, IntV(0), IntV(1), Num(7, 2), IntV(5), IntV(6), NaN, Str(<<"3">>)}

ScoreCandidates ==
    {AsScores(v) : v \in NonObjects \cup {Arr(0)}}
    \cup {sc @@ Obj : sc \in [AgentDims -> DimValues]}

GoodScores == [dim \in AgentDims |-> IntV(4)] @@ Obj

\* well-formed records: the base record with other accepted values
GoodTools ==
    {[baseTool EXCEPT !.slug = Str(sl), !.agentScore = a, !.tier = Str(ti),
                      !.categories = Arr(c), !.install = ins, !.repo = r,
                      !.docs = dc, !.agentScores = ags] :
        sl \in {GhSlug, <<"a", "-", "1">>},
        a \in {IntV(1), IntV(8), IntV(10)},
        ti \in validTiers,
        c \in {1, 2},
        ins \in {Install(Undef, Undef), Install(Str(GhSlug), Str(GhSlug))},
        r \in {Undef, Str(GhRepo)},
        dc \in {Undef, Str(GhRepo)},
        ags \in {AsScores(Undef), GoodScores}}

\* single departures from a well-formed record: [f, g, v] sets property f
\* (or property g of the object f) to v
DefectList ==
    <<[f |-> "slug", g |-> "", v |-> Undef],
      [f |-> "slug", g |-> "", v |-> Str(<<>>)],
      [f |-> "slug", g |-> "", v |-> Str(<<"G", "h">>)],
      [f |-> "slug", g |-> "", v |-> Str(<<"g", " ", "h">>)],
      [f |-> "slug", g |-> "", v |-> IntV(5)],
      [f |-> "name", g |-> "", v |-> Undef],
      [f |-> "name", g |-> "", v |-> Str(<<>>)],
      [f |-> "name", g |-> "", v |-> IntV(5)],
      [f |-> "description", g |-> "", v |-> Undef],
      [f |-> "description", g |-> "", v |-> Str(<<>>)],
      [f |-> "agentScore", g |-> "", v |-> Undef],
      [f |-> "agentScore", g |-> "", v |-> IntV(0)],
      [f |-> "agentScore", g |-> "", v |-> IntV(11)],
      [f |-> "agentScore", g |-> "", v |-> Num(15, 2)],
      [f |-> "agentScore", g |-> "", v |-> Num(1, 2)],
      [f |-> "agentScore", g |-> "", v |-> NaN],
      [f |-> "agentScore", g |-> "", v |-> Str(<<"8">>)],
      [f |-> "tier", g |-> "", v |-> Undef],
      [f |-> "tier", g |-> "", v |-> Str(<<"g", "o", "l", "d">>)],
      [f |-> "categories", g |-> "", v |-> Undef],
      [f |-> "categories", g |-> "", v |-> Arr(0)],
      [f |-> "categories", g |-> "", v |-> Str(<<"c", "l", "i">>)],
      [f |-> "vendor", g |-> "", v |-> AsVendor(Undef)],
      [f |-> "vendor", g |-> "", v |-> AsVendor(Null)],
      [f |-> "vendor", g |-> "", v |-> AsVendor(Str(<<"G", "H">>))],
      [f |-> "vendor", g |-> "", v |-> AsVendor(Arr(0))],
      [f |-> "vendor", g |-> "name", v |-> Undef],
      [f |-> "vendor", g |-> "name", v |-> Str(<<>>)],
      [f |-> "vendor", g |-> "domain", v |-> Undef],
      [f |-> "vendor", g |-> "domain", v |-> Str(<<>>)],
      [f |-> "vendor", g |-> "verified", v |-> Undef],
      [f |-> "vendor", g |-> "verified", v |-> Str(<<"y", "e", "s">>)],
      [f |-> "install", g |-> "", v |-> AsInstall(Undef)],
      [f |-> "install", g |-> "", v |-> AsInstall(Null)],
      [f |-> "install", g |-> "", v |-> AsInstall(Str(GhSlug))],
      [f |-> "capabilities", g |-> "", v |-> AsCapabilities(Undef)],
      [f |-> "capabilities", g |-> "", v |-> AsCapabilities(Null)],
      [f |-> "capabilities", g |-> "jsonOutput", v |-> Str(<<"y", "e", "s">>)],
      [f |-> "capabilities", g |-> "idempotent", v |-> Undef],
      [f |-> "capabilities", g |-> "interactive", v |-> IntV(1)],
      [f |-> "capabilities", g |-> "streaming", v |-> Null],
      [f |-> "capabilities", g |-> "auth", v |-> Undef],
      [f |-> "capabilities", g |-> "auth", v |-> Str(<<"k", "e", "y">>)]>>

ApplyDefect(tool, df) ==
    IF df.g = "" THEN [tool EXCEPT ![df.f] = df.v]
    ELSE [tool EXCEPT ![df.f][df.g] = df.v]

\* the defects of DefectList numbered in ix, applied in the order of the list
RECURSIVE ApplyDefects(_, _)
ApplyDefects(tool, ix) ==
    IF ix = {} THEN tool
    ELSE LET i == CHOOSE j \in ix : \A k \in ix : j <= k
         IN  ApplyDefects(ApplyDefect(tool, DefectList[i]), ix \ {i})

\* the sets of at most k defects
RECURSIVE DefectSets(_)
DefectSets(k) ==
    IF k = 0 THEN {{}}
    ELSE LET smaller == DefectSets(k - 1)
         IN  smaller \cup {ix \cup {i} : ix \in smaller, i \in 1..Len(DefectList)}

\* how many rules one candidate record departs from at once
MaxDefects == 2

ToolCandidates ==
    {AsTool(v) : v \in NonObjects \cup {Arr(0), Arr(1)}}
    \cup GoodTools
    \cup {ApplyDefects(baseTool, ix) : ix \in DefectSets(MaxDefects)}

\* entries of a registry's tools array
RegistryEntries ==
    {baseTool,
     [baseTool EXCEPT !.slug = Str(<<"a", "-", "1">>)],
     [baseTool EXCEPT !.agentScore = IntV(15)],
     [baseTool EXCEPT !.slug = Undef],
     [baseTool EXCEPT !.slug = Str(<<>>)],
     [baseTool EXCEPT !.slug = Str(<<"G", "h">>)],
     [baseTool EXCEPT !.slug = IntV(5)],
     AsTool(Null),
     AsTool(IntV(5))}

\* the longest tools array of a candidate registry
MaxTools == 3

RECURSIVE EntrySeqs(_)
EntrySeqs(k) ==
    IF k = 0 THEN {<<>>}
    ELSE LET shorter == EntrySeqs(k - 1)
         IN  shorter \cup {Append(sq, e) : sq \in shorter, e \in RegistryEntries}

RegistryCandidates ==
    {AsRegistry(v) : v \in NonObjects \cup {Arr(0)}}
    \cup {[version |-> ver, tools |-> tl] @@ Obj :
            ver \in {Undef, Str(<<"1">>), IntV(1)},
            tl \in {AsTools(Undef), AsTools(Obj), AsTools(Str(GhSlug))}
                   \cup {AsArray(sq) : sq \in EntrySeqs(MaxTools)}}

(***************************************************************************)
(* Strings, as sequences of characters                                     *)
(***************************************************************************)
\* s.indexOf(sub) + 1: the first place where sub occurs in s, 0 if none
IndexOf(s, sub) ==
    LET at == {i \in 1..(Len(s) - Len(sub) + 1) : SubSeq(s, i, i + Len(sub) - 1) = sub}
    IN  IF at = {} THEN 0 ELSE CHOOSE i \in at : \A j \in at : i <= j

\* s.includes(sub)
Includes(s, sub) == IndexOf(s, sub) # 0

\* s.replace(sub, rep) with a string pattern: the first occurrence only
ReplaceFirst(s, sub, rep) ==
    LET i == IndexOf(s, sub)
    IN  IF i = 0 THEN s
        ELSE SubSeq(s, 1, i - 1) \o rep \o SubSeq(s, i + Len(sub), Len(s))

UpperCase ==
    <<"A", "B", "C", "D", "E", "F", "G", "H", "I", "J", "K", "L", "M", "N", "O",
      "P", "Q", "R", "S", "T", "U", "V", "W", "X", "Y", "Z">>

LowerCase ==
    <<"a", "b", "c", "d", "e", "f", "g", "h", "i", "j", "k", "l", "m", "n", "o",
      "p", "q", "r", "s", "t", "u", "v", "w", "x", "y", "z">>

\* s.toLowerCase()
ToLowerCase(s) ==
    [i \in 1..Len(s) |->
        IF \E k \in 1..Len(UpperCase) : UpperCase[k] = s[i]
        THEN LowerCase[CHOOSE k \in 1..Len(UpperCase) : UpperCase[k] = s[i]]
        ELSE s[i]]

\* s.replace(/\./g, rep)
RECURSIVE ReplaceDots(_, _)
ReplaceDots(s, rep) ==
    IF s = <<>> THEN <<>>
    ELSE (IF Head(s) = "." THEN rep ELSE <<Head(s)>>) \o ReplaceDots(Tail(s), rep)

\* s.split('.')[0]
FirstSegment(s) ==
    LET i == IndexOf(s, <<".">>)
    IN  IF i = 0 THEN s ELSE SubSeq(s, 1, i - 1)

EndsWith(s, suffix) ==
    Len(s) >= Len(suffix) /\ SubSeq(s, Len(s) - Len(suffix) + 1, Len(s)) = suffix

\* the suffixes of /\.(com|org|io|co|dev|sh)$/
TldSuffixes ==
    {<<".", "c", "o", "m">>, <<".", "o", "r", "g">>, <<".", "i", "o">>,
     <<".", "c", "o">>, <<".", "d", "e", "v">>, <<".", "s", "h">>}

\* domain.replace(/\.(com|org|io|co|dev|sh)$/, ''): no two of the suffixes
\* end the same string, so at most one is stripped
StripTld(domain) ==
    IF \E suffix \in TldSuffixes : EndsWith(domain, suffix)
    THEN LET suffix == CHOOSE x \in TldSuffixes : EndsWith(domain, x)
         IN  SubSeq(domain, 1, Len(domain) - Len(suffix))
    ELSE domain

GithubComSlash == <<"g", "i", "t", "h", "u", "b", ".", "c", "o", "m", "/">>

GithubCom == <<"g", "i", "t", "h", "u", "b", ".", "c", "o", "m">>

HttpsGithubCom == <<"h", "t", "t", "p", "s", ":", "/", "/">> \o GithubComSlash

ApiRepos ==
    <<"h", "t", "t", "p", "s", ":", "/", "/", "a", "p", "i", ".">> \o GithubComSlash
    \o <<"r", "e", "p", "o", "s", "/">>

NoMatch == [found |-> FALSE, org |-> <<>>]

\* verify.ts extractGitHubOrg: repoUrl.match(/github\.com\/([^\/]+)/), the
\* group lower-cased; null when there is no match.  The match is the
\* leftmost "github.com/" that a character other than "/" follows, and the
\* group runs up to the next "/".
extractGitHubOrg(repoUrl) ==
    LET n == Len(GithubComSlash)
        at == {i \in 1..(Len(repoUrl) - n) :
                  /\ SubSeq(repoUrl, i, i + n - 1) = GithubComSlash
                  /\ repoUrl[i + n] # "/"}
    IN  IF at = {} THEN NoMatch
        ELSE LET i == CHOOSE j \in at : \A k \in at : j <= k
                 rest == SubSeq(repoUrl, i + n, Len(repoUrl))
                 stop == IndexOf(rest, <<"/">>)
                 group == IF stop = 0 THEN rest ELSE SubSeq(rest, 1, stop - 1)
             IN  [found |-> TRUE, org |-> ToLowerCase(group)]

domainToOrg_NoHyphens(domain) ==
    LET base == ToLowerCase(StripTld(domain))
    IN  <<base, ReplaceDots(base, <<>>), FirstSegment(base)>>

\* verify.ts domainToOrg
domainToOrg(domain) ==
    LET base == ToLowerCase(StripTld(domain))
    IN  <<base, ReplaceDots(base, <<>>), ReplaceDots(base, <<"-">>),
          FirstSegment(base)>>

(***************************************************************************)
(* Dates.  A Date is [valid, t]: t counts the seconds since 2000-01-01     *)
(* 00:00:00Z; an Invalid Date has valid = FALSE.                           *)
(***************************************************************************)
IsLeap(y) == (y % 4 = 0 /\ y % 100 # 0) \/ y % 400 = 0

DaysInYear(y) == IF IsLeap(y) THEN 366 ELSE 365

DaysInMonth(y, m) ==
    IF m = 2 THEN (IF IsLeap(y) THEN 29 ELSE 28)
    ELSE IF m \in {4, 6, 9, 11} THEN 30 ELSE 31

RECURSIVE DaysBeforeYear(_)
DaysBeforeYear(y) == IF y <= 2000 THEN 0 ELSE DaysBeforeYear(y - 1) + DaysInYear(y - 1)

RECURSIVE DaysBeforeMonth(_, _)
DaysBeforeMonth(y, m) ==
    IF m <= 1 THEN 0 ELSE DaysBeforeMonth(y, m - 1) + DaysInMonth(y, m - 1)

\* the time value of the date fields; a day past the end of its month runs
\* into the next month, as in Date.UTC and setFullYear
MakeTime(y, m, d, secs) ==
    (DaysBeforeYear(y) + DaysBeforeMonth(y, m) + (d - 1)) * 86400 + secs

InvalidDate == [valid |-> FALSE, t |-> 0]

IsDigit(c) == c \in {"0", "1", "2", "3", "4", "5", "6", "7", "8", "9"}

DigitValue(c) == CHOOSE k \in 0..9 : Digit(k) = c

RECURSIVE ParseDigits(_)
ParseDigits(s) ==
    IF s = <<>> THEN 0
    ELSE ParseDigits(SubSeq(s, 1, Len(s) - 1)) * 10 + DigitValue(s[Len(s)])

\* new Date(s) for a string: the format YYYY-MM-DDTHH:MM:SSZ that the GitHub
\* API writes is parsed; any other string of the model gives an Invalid Date
NewDate(s) ==
    IF /\ Len(s) = 20
       /\ s[5] = "-" /\ s[8] = "-" /\ s[11] = "T" /\ s[14] = ":" /\ s[17] = ":"
       /\ s[20] = "Z"
       /\ \A i \in (1..19) \ {5, 8, 11, 14, 17} : IsDigit(s[i])
    THEN LET y == ParseDigits(SubSeq(s, 1, 4))
             m == ParseDigits(SubSeq(s, 6, 7))
             d == ParseDigits(SubSeq(s, 9, 10))
             secs == ParseDigits(SubSeq(s, 12, 13)) * 3600
                     + ParseDigits(SubSeq(s, 15, 16)) * 60
                     + ParseDigits(SubSeq(s, 18, 19))
         IN  IF y >= 2000 /\ m \in 1..12 /\ d \in 1..DaysInMonth(y, m) /\ secs < 86400
             THEN [valid |-> TRUE, t |-> MakeTime(y, m, d, secs)]
             ELSE InvalidDate
    ELSE InvalidDate

RECURSIVE PadDigits(_, _)
PadDigits(k, width) ==
    IF width = 0 THEN <<>> ELSE PadDigits(k \div 10, width - 1) \o <<Digit(k % 10)>>

\* date.toISOString().split('T')[0] of a valid Date
IsoDay(date) ==
    LET days == date.t \div 86400
        y == CHOOSE yy \in 2000..2100 :
                 DaysBeforeYear(yy) <= days /\ days < DaysBeforeYear(yy + 1)
        m == CHOOSE mm \in 1..12 :
                 /\ DaysBeforeMonth(y, mm) <= days - DaysBeforeYear(y)
                 /\ days - DaysBeforeYear(y) < DaysBeforeMonth(y, mm + 1)
        d == days - DaysBeforeYear(y) - DaysBeforeMonth(y, m) + 1
    IN  PadDigits(y, 4) \o <<"-">> \o PadDigits(m, 2) \o <<"-">> \o PadDigits(d, 2)

\* new Date() at the time now = [y, m, d, secs], then
\* setFullYear(getFullYear() - 1)
OneYearAgo(tm) == [valid |-> TRUE, t |-> MakeTime(tm.y - 1, tm.m, tm.d, tm.secs)]

(***************************************************************************)
(* Verification engine                                                     *)
(***************************************************************************)
\* a detail string: the fixed text, the strings and the number put into it
Detail(msg, arg, arg2, num) == [msg |-> msg, arg |-> arg, arg2 |-> arg2, num |-> num]

Check(passed, detail) == [passed |-> passed, detail |-> detail]

\* verify.ts verifyTool, the initial checks object
InitialChecks ==
    [repoExists |-> Check(FALSE, Detail("No repo URL provided", <<>>, <<>>, 0)),
     repoActive |-> Check(FALSE, Detail("Could not check activity", <<>>, <<>>, 0)),
     domainMatch |->
         Check(FALSE, Detail("Could not verify domain match", <<>>, <<>>, 0)),
     hasInstallMethod |->
         Check(FALSE, Detail("No install method provided", <<>>, <<>>, 0))]

CheckNames == {"repoExists", "repoActive", "domainMatch", "hasInstallMethod"}

\* Object.values(tool.install).filter(Boolean)
installMethods(tool) == {k \in InstallKeys : Truthy(tool.install.m[k])}

CheckInstall_AnyKey(tool, cs) ==
    [cs EXCEPT !.hasInstallMethod =
        Check(TRUE, Detail(" install method(s)", <<>>, <<>>,
                           Cardinality(installMethods(tool))))]

\* Check 1: has install method
CheckInstall(tool, cs) ==
    IF Cardinality(installMethods(tool)) > 0
    THEN [cs EXCEPT !.hasInstallMethod =
             Check(TRUE, Detail(" install method(s)", <<>>, <<>>,
                                Cardinality(installMethods(tool))))]
    ELSE cs

FailedToFetch_KeepsDetail(cs) ==
    [cs EXCEPT !.repoExists = Check(FALSE, InitialChecks.repoExists.detail)]

\* the catch block
FailedToFetch(cs) ==
    [cs EXCEPT !.repoExists =
        Check(FALSE, Detail("Failed to fetch repo info", <<>>, <<>>, 0))]

Recommend_AtLeastThree(passedChecks) ==
    IF passedChecks >= 3 THEN "verified"
    ELSE IF passedChecks >= 2 THEN "community"
    ELSE "unverified"

\* determine recommendation
Recommend(passedChecks) ==
    IF passedChecks >= 4 THEN "verified"
    ELSE IF passedChecks >= 2 THEN "community"
    ELSE "unverified"

\* calculate score, determine recommendation, return
Conclude(tool, cs) ==
    LET passedChecks == Cardinality({c \in CheckNames : cs[c].passed})
    IN  [returned |-> TRUE, threw |-> FALSE, slug |-> tool.slug, checks |-> cs,
         score |-> MathRound(passedChecks * 100, 4),
         recommendation |-> Recommend(passedChecks)]

NotReturned ==
    [returned |-> FALSE, threw |-> FALSE, slug |-> Undef, checks |-> InitialChecks,
     score |-> 0, recommendation |-> ""]

\* an error left verifyTool: the promise is rejected
Escaped == [NotReturned EXCEPT !.threw = TRUE]

NoResponse == [ok |-> FALSE, status |-> 0]

NoBody == Undef @@ [pushed_at |-> Undef, stargazers_count |-> Undef]

NoTime == [y |-> 2000, m |-> 1, d |-> 1, secs |-> 0]

NoVerification ==
    /\ now = NoTime
    /\ checks = InitialChecks
    /\ fetched = <<>>
    /\ lookup = "none"
    /\ response = NoResponse
    /\ data = NoBody
    /\ verification = NotReturned

AfterJson_DomainCheckFirst(tool, tm, body, cs) ==
    LET exists == [cs EXCEPT !.repoExists =
                      Check(TRUE, Detail("Repository exists on GitHub", <<>>, <<>>, 0))]
    IN  IF body.t \in {"null", "undefined"} THEN FailedToFetch(exists)
        ELSE
        LET pushed_at == Prop(body, "pushed_at")
            stars == Prop(body, "stargazers_count")
            lastPush == IF pushed_at.t = "string" THEN NewDate(pushed_at.s)
                        ELSE InvalidDate
            active == lastPush.valid /\ lastPush.t > OneYearAgo(tm).t
            githubOrg == extractGitHubOrg(tool.repo.s)
            possibleOrgs == domainToOrg(tool.vendor.domain.s)
            domainCheck(c) ==
                IF githubOrg.found
                   /\ \E i \in 1..Len(possibleOrgs) : possibleOrgs[i] = githubOrg.org
                THEN [c EXCEPT !.domainMatch =
                         Check(TRUE, Detail("GitHub org matches vendor domain",
                                            githubOrg.org, <<>>, 0))]
                ELSE IF githubOrg.found
                THEN [c EXCEPT !.domainMatch =
                         Check(FALSE, Detail("GitHub org doesn't match",
                                             githubOrg.org, tool.vendor.domain.s, 0))]
                ELSE c
        IN  IF ~Truthy(pushed_at) THEN domainCheck(exists)
            ELSE IF active
            THEN domainCheck(
                     [exists EXCEPT !.repoActive =
                         Check(TRUE, Detail("Last activity: , stars", IsoDay(lastPush),
                                            <<>>,
                                            IF Truthy(stars) THEN stars.n \div stars.d
                                            ELSE 0))])
            ELSE IF lastPush.valid
            THEN domainCheck(
                     [exists EXCEPT !.repoActive =
                         Check(FALSE, Detail("Inactive since ", IsoDay(lastPush),
                                             <<>>, 0))])
            \* toISOString of an Invalid Date throws a RangeError
            ELSE FailedToFetch(domainCheck(exists))

\* the statements after data = await response.json(); the result is the
\* checks object at the end of the try statement.  Reading a property of a
\* null body is a TypeError, which the catch block handles.
AfterJson(tool, tm, body, cs) ==
    LET exists == [cs EXCEPT !.repoExists =
                      Check(TRUE, Detail("Repository exists on GitHub", <<>>, <<>>, 0))]
    IN  IF body.t \in {"null", "undefined"} THEN FailedToFetch(exists)
        ELSE
        LET pushed_at == Prop(body, "pushed_at")
            stars == Prop(body, "stargazers_count")
            lastPush == IF pushed_at.t = "string" THEN NewDate(pushed_at.s)
                        ELSE InvalidDate
            active == lastPush.valid /\ lastPush.t > OneYearAgo(tm).t
            githubOrg == extractGitHubOrg(tool.repo.s)
            possibleOrgs == domainToOrg(tool.vendor.domain.s)
            domainCheck(c) ==
                IF githubOrg.found
                   /\ \E i \in 1..Len(possibleOrgs) : possibleOrgs[i] = githubOrg.org
                THEN [c EXCEPT !.domainMatch =
                         Check(TRUE, Detail("GitHub org matches vendor domain",
                                            githubOrg.org, <<>>, 0))]
                ELSE IF githubOrg.found
                THEN [c EXCEPT !.domainMatch =
                         Check(FALSE, Detail("GitHub org doesn't match",
                                             githubOrg.org, tool.vendor.domain.s, 0))]
                ELSE c
        IN  IF ~Truthy(pushed_at) THEN domainCheck(exists)
            ELSE IF active
            THEN domainCheck(
                     [exists EXCEPT !.repoActive =
                         Check(TRUE, Detail("Last activity: , stars", IsoDay(lastPush),
                                            <<>>,
                                            IF Truthy(stars) THEN stars.n \div stars.d
                                            ELSE 0))])
            ELSE IF lastPush.valid
            THEN domainCheck(
                     [exists EXCEPT !.repoActive =
                         Check(FALSE, Detail("Inactive since ", IsoDay(lastPush),
                                             <<>>, 0))])
            \* toISOString of an Invalid Date throws a RangeError
            ELSE FailedToFetch(exists)

(***************************************************************************)
(* Review aggregator (review.ts aggregateReviews)                          *)
(*                                                                         *)
(* A mean is the rational sum/count.  Math.round(x * 10) / 10 is a number  *)
(* of tenths, kept as Num(tenths, 10).  With fewer than eight reviews no   *)
(* value that is rounded lies within floating-point error of a half, so    *)
(* the exact quotients round as the doubles do.                            *)
(***************************************************************************)
dims ==
    <<"jsonParseable", "errorClarity", "authSimplicity", "idempotency",
      "docsSufficient">>

\* values.reduce((a, b) => a + b, 0) for values = reviews.map(r => r.scores[dim])
RECURSIVE SumValues(_, _)
SumValues(rs, dim) ==
    IF rs = <<>> THEN 0
    ELSE SumValues(SubSeq(rs, 1, Len(rs) - 1), dim) + rs[Len(rs)].scores[dim]

IsGood_AboveFour(v) == v > 4

\* the filter of line 190: v >= 4
IsGood(v) == v >= 4

\* values.filter(v => v >= 4).length
goodCount(rs, dim) == Cardinality({i \in 1..Len(rs) : IsGood(rs[i].scores[dim])})

\* the entry dimensions[dim] of lines 191-194
DimensionStats(rs, dim) ==
    [avg |-> Num(MathRound(SumValues(rs, dim) * 10, Len(rs)), 10),
     pct |-> MathRound(goodCount(rs, dim) * 100, Len(rs))]

\* totalScore after the loop, times values.length
RECURSIVE TotalSum(_, _)
TotalSum(rs, k) ==
    IF k = 0 THEN 0 ELSE TotalSum(rs, k - 1) + SumValues(rs, dims[k])

AvgScore_Integer(rs) == Num(MathRound(TotalSum(rs, Len(dims)) * 10, Len(rs) * 25), 1)

\* line 200: Math.round((totalScore / 5 / 5) * 10 * 10) / 10
AvgScore(rs) == Num(MathRound(TotalSum(rs, Len(dims)) * 100, Len(rs) * 25), 10)

\* lines 182-202, for a list that is not empty
Aggregate(rs) ==
    [isNull |-> FALSE,
     count |-> Len(rs),
     avgScore |-> AvgScore(rs),
     dimensions |-> [dim \in {dims[k] : k \in 1..Len(dims)} |-> DimensionStats(rs, dim)]]

NoAggregate == [isNull |-> TRUE, count |-> 0, avgScore |-> Num(0, 1), dimensions |-> <<>>]

aggregateReviews_NullForOne(rs) == IF Len(rs) <= 1 THEN NoAggregate ELSE Aggregate(rs)

aggregateReviews(rs) == IF Len(rs) = 0 THEN NoAggregate ELSE Aggregate(rs)

(***************************************************************************)
(* Review wizard (review.ts runReviewWizard)                               *)
(*                                                                         *)
(* A run has two steps: from the call to the first prompt, and from the    *)
(* answers to the end.  process.exit(1) ends a run with the outcome        *)
(* "exit".  A review in the pending file is [tool, agentId, scores,        *)
(* proofHash, timestamp, notes], with notes = <<>> for a review without    *)
(* notes.                                                                  *)
(***************************************************************************)
\* the slugs of the registry that loadRegistry returns (valid, so unique)
RegistrySlugs == {"gh", "jq"}

\* findTool(registry, slug) finds a tool
findTool(slug) == slug \in RegistrySlugs

\* what generateAgentId can return
AgentIds == {"agent-a", "agent-b"}

Whitespace == {" ", "\t"}

\* String.prototype.trim
RECURSIVE Trim(_)
Trim(s) ==
    IF s = <<>> THEN s
    ELSE IF s[1] \in Whitespace THEN Trim(Tail(s))
    ELSE IF s[Len(s)] \in Whitespace THEN Trim(SubSeq(s, 1, Len(s) - 1))
    ELSE s

HashLen == 64

HexLower == {"0", "1", "2", "3", "4", "5", "6", "7", "8", "9", "a", "b", "c", "d", "e", "f"}

HexUpper == {"A", "B", "C", "D", "E", "F"}

\* /^[a-f0-9]{64}$/i.test(s): the flag i lets the capitals A-F match
ProofRegexTest(s) ==
    /\ Len(s) = HashLen
    /\ \A i \in 1..Len(s) : s[i] \in HexLower \cup HexUpper

\* lines 117-124: the reviews read from the pending file
ReadPending(file) == IF file.exists /\ file.parses THEN file.reviews ELSE <<>>

HasPending_FirstOnly(pending, slug, agentId) ==
    /\ pending # <<>>
    /\ pending[1].tool = slug /\ pending[1].agentId = agentId

\* line 126: pending.find(r => r.tool === slug && r.agentId === agentId)
HasPending(pending, slug, agentId) ==
    \E i \in 1..Len(pending) : pending[i].tool = slug /\ pending[i].agentId = agentId

(***************************************************************************)
(* Registry files (lib.ts loadRegistry, fetchRemoteRegistry,               *)
(* saveLocalRegistry, updateRegistry).  The outcome of a call is           *)
(* [returned, error, message, doc], error being the name of the error      *)
(* thrown.                                                                 *)
(***************************************************************************)
NoDoc == AsRegistry(Undef)

ReturnDoc(doc) == [returned |-> TRUE, error |-> "none", message |-> "", doc |-> doc]

Throw(name, message) ==
    [returned |-> FALSE, error |-> name, message |-> message, doc |-> NoDoc]

\* lib.ts 586-594: validateRegistry is called outside the try statements,
\* so what it throws leaves loadRegistry as it is
Validated_Unchecked(doc, message) == ReturnDoc(doc)

Validated(doc, message) ==
    LET validation == validateRegistry(doc)
    IN  IF validation.threw THEN Throw("TypeError", "Cannot read properties of null")
        ELSE IF ~validation.valid THEN Throw("RegistryError", message)
        ELSE ReturnDoc(doc)

\* lib.ts loadRegistry (registry.ts holds the same function)
loadRegistry(file) ==
    IF ~file.exists THEN Throw("RegistryError", "Registry file not found")
    ELSE IF ~file.readable THEN Throw("RegistryError", "Failed to read registry file")
    ELSE IF ~file.parses
    THEN Throw("RegistryError", "Registry file contains invalid JSON")
    ELSE Validated(file.doc, "Registry validation failed")

NoRegistryFile == [exists |-> FALSE, readable |-> FALSE, parses |-> FALSE, doc |-> NoDoc]

NoCache == [exists |-> FALSE, doc |-> NoDoc]

NoRemote ==
    [settled |-> FALSE, rejected |-> FALSE, ok |-> FALSE, status |-> 0,
     parses |-> FALSE, doc |-> NoDoc]

NoOutcome == [returned |-> FALSE, error |-> "none", message |-> "", doc |-> NoDoc]

NoRegistry ==
    /\ registryFile = NoRegistryFile
    /\ localCache = NoCache
    /\ remote = NoRemote
    /\ outcome = NoOutcome

(***************************************************************************)
(* Tool submission (add.ts runAddWizard).  The answers are the lines typed *)
(* at the prompts; promptNumber asks again until the line is an integer in *)
(* 1..5, so a score is such an integer.                                    *)
(***************************************************************************)
\* add.ts prompt: the line typed, trimmed
prompt(line) == Trim(line)

\* categoriesStr.split(',')
RECURSIVE SplitComma(_)
SplitComma(s) ==
    LET i == IndexOf(s, <<",">>)
    IN  IF i = 0 THEN <<s>>
        ELSE <<SubSeq(s, 1, i - 1)>> \o SplitComma(SubSeq(s, i + 1, Len(s)))

\* line 70: the number of categories left by map(c => c.trim()).filter(Boolean)
CategoryCount(categoriesStr) ==
    LET parts == SplitComma(categoriesStr)
    IN  Cardinality({i \in 1..Len(parts) : Trim(parts[i]) # <<>>})

\* lines 108-113: an optional field is set when the answer is not empty
Optional(answer) == IF answer # <<>> THEN Str(answer) ELSE Undef

PromptedInstall == {"brew", "npm", "apt", "cargo"}

Unverified == <<"u", "n", "v", "e", "r", "i", "f", "i", "e", "d">>

\* add.ts 47-113: the record built from the slug and the answers
assembleTool(slug, ans) ==
    [slug |-> Str(slug),
     name |-> Str(prompt(ans.name)),
     vendor |-> [name |-> Str(prompt(ans.vendorName)),
                 domain |-> Str(prompt(ans.vendorDomain)),
                 verified |-> Bool(FALSE)] @@ Obj,
     install |-> [m |-> [k \in InstallKeys |->
                             IF k \in PromptedInstall THEN Optional(prompt(ans[k]))
                             ELSE Undef]] @@ Obj,
     capabilities |-> [jsonOutput |-> Bool(ans.scores.jsonOutput >= 3),
                       auth |-> Arr(0),
                       idempotent |-> Bool(TRUE),
                       interactive |-> Bool(ans.scores.nonInteractive < 3),
                       streaming |-> Bool(FALSE)] @@ Obj,
     agentScores |-> [dim \in AgentDims |-> IntV(ans.scores[dim])] @@ Obj,
     agentScore |-> IntV(computeAgentScore(ans.scores)),
     categories |-> IF CategoryCount(prompt(ans.categories)) > 0
                    THEN Arr(CategoryCount(prompt(ans.categories)))
                    ELSE Arr(1),
     tier |-> Str(Unverified),
     description |-> Str(prompt(ans.description)),
     repo |-> Optional(prompt(ans.repo)),
     docs |-> Optional(prompt(ans.docs))] @@ Obj

AfterValidation_NeverExits(tool) == "validated"

\* add.ts 116-122: the run ends when validateTool does not accept the record
AfterValidation(tool) ==
    IF ~validateTool(tool).valid THEN "exit" ELSE "validated"

\* add.ts 127-134: the records read from the pending-tools file
ReadPendingTools(file) == IF file.exists /\ file.parses THEN file.tools ELSE <<>>

NoToolsFile == [exists |-> FALSE, parses |-> FALSE, tools |-> <<>>]

NoProc ==
    [pc |-> "none", slug |-> "", agentId |-> "", record |-> Undef, read |-> <<>>,
     error |-> "none"]

NoOverlap ==
    /\ toolsFile = NoToolsFile
    /\ procs = <<NoProc, NoProc>>

NoReviews == <<>>

NoFile == [exists |-> FALSE, text |-> <<>>]

NoPending == [exists |-> FALSE, parses |-> FALSE, reviews |-> <<>>]

NoWizard == [slug |-> "", agentId |-> "", outcome |-> "none", error |-> "none"]

NoAnswers == [scores |-> <<>>, notes |-> <<>>, proofHash |-> <<>>]

NoReview ==
    /\ reviews = NoReviews
    /\ aggregate = NoAggregate
    /\ agentIdFile = NoFile
    /\ pendingFile = NoPending
    /\ wizard = NoWizard
    /\ answers = NoAnswers
    /\ clock = 0

NoScores == [dim \in {} |-> 0]

NoCandidate == Undef

NoResult == [threw |-> FALSE, valid |-> FALSE, errors |-> <<>>]

InitScore ==
    /\ pc = "call"
    /\ \/ op = "computeAgentScore" /\ scores \in AgentVectors
       \/ op = "computeReviewScore" /\ scores \in ReviewVectors
    /\ score = 0
    /\ candidate = NoCandidate
    /\ result = NoResult
    /\ NoVerification
    /\ NoReview
    /\ NoRegistry
    /\ NoOverlap

ComputeAgentScore ==
    /\ pc = "call" /\ op = "computeAgentScore"
    /\ score' = computeAgentScore(scores)
    /\ pc' = "done"
    /\ UNCHANGED <<op, scores, candidate, result, verifyVars>>
    /\ UNCHANGED reviewVars
    /\ UNCHANGED registryVars
    /\ UNCHANGED overlapVars

ComputeReviewScore ==
    /\ pc = "call" /\ op = "computeReviewScore"
    /\ score' = computeReviewScore(scores)
    /\ pc' = "done"
    /\ UNCHANGED <<op, scores, candidate, result, verifyVars>>
    /\ UNCHANGED reviewVars
    /\ UNCHANGED registryVars
    /\ UNCHANGED overlapVars

NextScore == ComputeAgentScore \/ ComputeReviewScore

SpecScore == InitScore /\ [][NextScore]_vars

InitValidate ==
    /\ pc = "call"
    /\ \/ op = "validateAgentScores" /\ candidate \in ScoreCandidates
       \/ op = "validateTool" /\ candidate \in ToolCandidates
       \/ op = "validateRegistry" /\ candidate \in RegistryCandidates
    /\ scores = NoScores
    /\ score = 0
    /\ result = NoResult
    /\ NoVerification
    /\ NoReview
    /\ NoRegistry
    /\ NoOverlap

ValidateAgentScores ==
    /\ pc = "call" /\ op = "validateAgentScores"
    /\ result' = validateAgentScores(candidate)
    /\ pc' = "done"
    /\ UNCHANGED <<op, scores, score, candidate, verifyVars>>
    /\ UNCHANGED reviewVars
    /\ UNCHANGED registryVars
    /\ UNCHANGED overlapVars

ValidateTool ==
    /\ pc = "call" /\ op = "validateTool"
    /\ result' = validateTool(candidate)
    /\ pc' = "done"
    /\ UNCHANGED <<op, scores, score, candidate, verifyVars>>
    /\ UNCHANGED reviewVars
    /\ UNCHANGED registryVars
    /\ UNCHANGED overlapVars

ValidateRegistry ==
    /\ pc = "call" /\ op = "validateRegistry"
    /\ result' = validateRegistry(candidate)
    /\ pc' = "done"
    /\ UNCHANGED <<op, scores, score, candidate, verifyVars>>
    /\ UNCHANGED reviewVars
    /\ UNCHANGED registryVars
    /\ UNCHANGED overlapVars

NextValidate == ValidateAgentScores \/ ValidateTool \/ ValidateRegistry

SpecValidate == InitValidate /\ [][NextValidate]_vars

(***************************************************************************)
(* verifyTool.  The tools are records that validateTool accepts; the       *)
(* fetcher and the response body are the environment's.                    *)
(***************************************************************************)
GhOrgRepo == HttpsGithubCom \o <<"g", "i", "t", "h", "u", "b", "/", "g", "h">>

CliOrgRepo == HttpsGithubCom \o <<"C", "l", "i", "/", "g", "h">>

HttpRepo ==
    <<"h", "t", "t", "p", ":", "/", "/">> \o GithubComSlash
    \o <<"d", "o", "c", "s", "-", "g", "i", "t", "h", "u", "b", "/", "x">>

GitlabRepo ==
    <<"h", "t", "t", "p", "s", ":", "/", "/", "g", "i", "t", "l", "a", "b", ".",
      "c", "o", "m", "/", "c", "l", "i", "/", "g", "h">>

\* a repository on another host whose path holds the text github.com
MirrorRepo ==
    <<"h", "t", "t", "p", "s", ":", "/", "/", "g", "i", "t", "l", "a", "b", ".",
      "c", "o", "m", "/">> \o GithubComSlash \o <<"g", "h">>

VerifyRepos ==
    {Undef, Str(<<>>), IntV(5), Str(GhOrgRepo), Str(CliOrgRepo), Str(HttpRepo),
     Str(HttpsGithubCom), Str(GitlabRepo), Str(MirrorRepo)}

VerifyDomains ==
    {GithubCom, <<"c", "l", "i", ".", "d", "e", "v">>,
     <<"d", "o", "c", "s", ".">> \o GithubCom,
     <<"D", "o", "c", "s", ".">> \o GithubCom}

VerifyInstalls ==
    {Install(Undef, Undef), Install(Str(<<>>), Undef), Install(Str(GhSlug), Undef),
     Install(Str(GhSlug), Str(GhSlug))}

VerifyTools ==
    {tl \in {[baseTool EXCEPT !.repo = r, !.vendor.domain = Str(dm), !.install = ins,
                              !.tier = Str(ti)] :
                r \in VerifyRepos, dm \in VerifyDomains, ins \in VerifyInstalls,
                ti \in {<<"v", "e", "r", "i", "f", "i", "e", "d">>,
                        <<"u", "n", "v", "e", "r", "i", "f", "i", "e", "d">>}} :
        validateTool(tl).valid}

\* evaluation times: 2024-03-01 12:00:00, 2024-02-29 12:00:00, 2025-06-15 00:00:00
Nows ==
    {[y |-> 2024, m |-> 3, d |-> 1, secs |-> 43200],
     [y |-> 2024, m |-> 2, d |-> 29, secs |-> 43200],
     [y |-> 2025, m |-> 6, d |-> 15, secs |-> 0]}

\* what the fetcher resolves with: response.ok is true for a status 200..299
Responses ==
    {[ok |-> st \in 200..299, status |-> st] : st \in {200, 403, 404, 500}}

IsoString(day, time) == day \o <<"T">> \o time \o <<"Z">>

Midnight == <<"0", "0", ":", "0", "0", ":", "0", "0">>

Evening == <<"1", "8", ":", "0", "0", ":", "0", "0">>

PushedAtValues ==
    {Undef, Null, Str(<<>>), Str(<<"s", "o", "o", "n">>),
     Str(IsoString(<<"2", "0", "2", "4", "-", "0", "1", "-", "1", "0">>, Midnight)),
     Str(IsoString(<<"2", "0", "2", "3", "-", "0", "3", "-", "0", "1">>, Evening)),
     Str(IsoString(<<"2", "0", "2", "3", "-", "0", "2", "-", "2", "8">>, Evening)),
     Str(IsoString(<<"2", "0", "2", "2", "-", "0", "1", "-", "0", "1">>, Midnight))}

BodyProps == [pushed_at |-> Undef, stargazers_count |-> Undef]

\* what response.json() resolves with
Bodies ==
    {Null @@ BodyProps}
    \cup {[pushed_at |-> p, stargazers_count |-> st] @@ Obj :
            p \in PushedAtValues, st \in {Undef, IntV(0), IntV(1000)}}

InitVerify ==
    /\ pc = "call"
    /\ op = "verifyTool"
    /\ candidate \in VerifyTools
    /\ now \in Nows
    /\ scores = NoScores
    /\ score = 0
    /\ result = NoResult
    /\ checks = InitialChecks
    /\ fetched = <<>>
    /\ lookup = "none"
    /\ response = NoResponse
    /\ data = NoBody
    /\ verification = NotReturned
    /\ NoReview
    /\ NoRegistry
    /\ NoOverlap

\* verify.ts 39-58: from the call to the first suspension point, or to the
\* return when no request is made
VerifyStart ==
    /\ pc = "call" /\ op = "verifyTool"
    /\ LET tool == candidate
           cs == CheckInstall(tool, InitialChecks)
       IN  /\ checks' = cs
           /\ IF ~Truthy(tool.repo)
              THEN /\ verification' = Conclude(tool, cs)
                   /\ pc' = "done"
                   /\ UNCHANGED <<fetched, lookup>>
              \* repo.includes is not a function: the TypeError is thrown
              \* outside the try statement
              ELSE IF tool.repo.t # "string"
              THEN /\ verification' = Escaped
                   /\ pc' = "done"
                   /\ UNCHANGED <<fetched, lookup>>
              ELSE IF ~Includes(tool.repo.s, GithubCom)
              THEN /\ verification' = Conclude(tool, cs)
                   /\ pc' = "done"
                   /\ UNCHANGED <<fetched, lookup>>
              ELSE /\ fetched' = Append(fetched,
                                        ApiRepos \o ReplaceFirst(tool.repo.s,
                                                                 HttpsGithubCom, <<>>))
                   /\ lookup' = "pending"
                   /\ pc' = "fetching"
                   /\ UNCHANGED verification
    /\ UNCHANGED <<op, scores, score, candidate, result, now, response, data>>
    /\ UNCHANGED reviewVars
    /\ UNCHANGED registryVars
    /\ UNCHANGED overlapVars

\* the fetcher throws or its promise is rejected: the catch block, then the
\* rest of the function
FetchRejects ==
    /\ pc = "fetching"
    /\ lookup' = "rejected"
    /\ checks' = FailedToFetch(checks)
    /\ verification' = Conclude(candidate, checks')
    /\ pc' = "done"
    /\ UNCHANGED <<op, scores, score, candidate, result, now, fetched, response, data>>
    /\ UNCHANGED reviewVars
    /\ UNCHANGED registryVars
    /\ UNCHANGED overlapVars

\* the fetcher resolves: verify.ts 60-61 and 98-100
FetchResolves ==
    /\ pc = "fetching"
    /\ \E r \in Responses :
           /\ response' = r
           /\ IF r.ok
              THEN /\ lookup' = "reading"
                   /\ pc' = "reading"
                   /\ UNCHANGED <<checks, verification>>
              ELSE /\ lookup' = "status"
                   /\ checks' = [checks EXCEPT !.repoExists =
                                    Check(FALSE, Detail("GitHub returned ", <<>>, <<>>,
                                                        r.status))]
                   /\ verification' = Conclude(candidate, checks')
                   /\ pc' = "done"
    /\ UNCHANGED <<op, scores, score, candidate, result, now, fetched, data>>
    /\ UNCHANGED reviewVars
    /\ UNCHANGED registryVars
    /\ UNCHANGED overlapVars

\* response.json() is rejected (the body is no JSON, the connection drops)
JsonRejects ==
    /\ pc = "reading"
    /\ lookup' = "unreadable"
    /\ checks' = FailedToFetch(checks)
    /\ verification' = Conclude(candidate, checks')
    /\ pc' = "done"
    /\ UNCHANGED <<op, scores, score, candidate, result, now, fetched, response, data>>
    /\ UNCHANGED reviewVars
    /\ UNCHANGED registryVars
    /\ UNCHANGED overlapVars

JsonResolves_AppliesRecommendation ==
    /\ pc = "reading"
    /\ \E body \in Bodies :
           /\ data' = body
           /\ checks' = AfterJson(candidate, now, body, checks)
           /\ verification' = Conclude(candidate, checks')
    /\ candidate' = [candidate EXCEPT
                        !.vendor.verified = Bool(verification'.recommendation = "verified")]
    /\ lookup' = "read"
    /\ pc' = "done"
    /\ UNCHANGED <<op, scores, score, result, now, fetched, response>>
    /\ UNCHANGED reviewVars
    /\ UNCHANGED registryVars
    /\ UNCHANGED overlapVars

\* response.json() resolves: verify.ts 61-97, then the rest of the function
JsonResolves ==
    /\ pc = "reading"
    /\ \E body \in Bodies :
           /\ data' = body
           /\ checks' = AfterJson(candidate, now, body, checks)
           /\ verification' = Conclude(candidate, checks')
    /\ lookup' = "read"
    /\ pc' = "done"
    /\ UNCHANGED <<op, scores, score, candidate, result, now, fetched, response>>
    /\ UNCHANGED reviewVars
    /\ UNCHANGED registryVars
    /\ UNCHANGED overlapVars

NextVerify ==
    VerifyStart \/ FetchRejects \/ FetchResolves \/ JsonRejects \/ JsonResolves

SpecVerify == InitVerify /\ [][NextVerify]_vars

(***************************************************************************)
(* aggregateReviews: the argument is drawn in the initial state.  A list   *)
(* of one review ranges over all score vectors; longer lists are built     *)
(* from a few vectors, given by two agents at two times.                   *)
(***************************************************************************)
ScoreVector(a, b, c, d, e) ==
    [jsonParseable |-> a, errorClarity |-> b, authSimplicity |-> c,
     idempotency |-> d, docsSufficient |-> e]

ScoreSamples ==
    {ScoreVector(4, 4, 4, 4, 4), ScoreVector(5, 5, 5, 5, 5),
     ScoreVector(5, 4, 4, 5, 4), ScoreVector(4, 4, 4, 4, 5),
     ScoreVector(3, 3, 3, 3, 3), ScoreVector(1, 2, 3, 4, 5)}

Reviewers == {[agentId |-> "agent-a", timestamp |-> 1], [agentId |-> "agent-b", timestamp |-> 2]}

ReviewOf(tool, who, sc) ==
    [tool |-> tool, agentId |-> who.agentId, scores |-> sc, timestamp |-> who.timestamp]

MaxReviews == 3

ReviewLists ==
    {<<>>}
    \cup {<<ReviewOf("gh", who, sc)>> : who \in Reviewers, sc \in ReviewVectors}
    \cup UNION {[1..k -> {ReviewOf("gh", who, sc) : who \in Reviewers, sc \in ScoreSamples}] :
                  k \in 2..MaxReviews}

InitAggregate ==
    /\ pc = "call"
    /\ op = "aggregateReviews"
    /\ reviews \in ReviewLists
    /\ aggregate = NoAggregate
    /\ agentIdFile = NoFile
    /\ pendingFile = NoPending
    /\ wizard = NoWizard
    /\ answers = NoAnswers
    /\ clock = 0
    /\ scores = NoScores
    /\ score = 0
    /\ candidate = NoCandidate
    /\ result = NoResult
    /\ NoVerification
    /\ NoRegistry
    /\ NoOverlap

AggregateReviews ==
    /\ pc = "call" /\ op = "aggregateReviews"
    /\ aggregate' = aggregateReviews(reviews)
    /\ pc' = "done"
    /\ UNCHANGED <<op, scores, score, candidate, result, verifyVars, reviews,
                   agentIdFile, pendingFile, wizard, answers, clock>>
    /\ UNCHANGED registryVars
    /\ UNCHANGED overlapVars

NextAggregate == AggregateReviews

SpecAggregate == InitAggregate /\ [][NextAggregate]_vars

(***************************************************************************)
(* runReviewWizard: runs follow one another, each ending before the next   *)
(* starts.  At first the agent-id file is absent or holds an id, the       *)
(* pending file is absent or holds text that is no JSON.                   *)
(***************************************************************************)
Repeat(c, k) == [i \in 1..k |-> c]

ValidHash == Repeat("a", HashLen \div 2) \o Repeat("7", HashLen \div 2)

\* the lines typed at the proof hash prompt
ProofLines ==
    {<<>>,
     Repeat("a", HashLen - 1),
     ValidHash,
     Repeat("A", HashLen \div 2) \o Repeat("7", HashLen \div 2),
     Repeat("a", HashLen + 1),
     Repeat("g", HashLen),
     <<" ">> \o ValidHash \o <<" ">>}

\* what promptNumber resolves with five times (integers in 1..5) and what
\* prompt resolves with for the notes
WizardAnswers ==
    {[scores |-> ScoreVector(5, 4, 4, 5, 4), notes |-> <<>>],
     [scores |-> ScoreVector(1, 2, 3, 4, 5), notes |-> <<"o", "k">>]}

WizardSlugs == RegistrySlugs \cup {"nope"}

MaxRuns == 3

InitWizard ==
    /\ pc = "idle"
    /\ op = "runReviewWizard"
    /\ agentIdFile \in {NoFile} \cup {[exists |-> TRUE, text |-> id] : id \in AgentIds}
    /\ pendingFile \in {NoPending, [exists |-> TRUE, parses |-> FALSE, reviews |-> <<>>]}
    /\ wizard = NoWizard
    /\ answers = NoAnswers
    /\ clock = 0
    /\ reviews = NoReviews
    /\ aggregate = NoAggregate
    /\ scores = NoScores
    /\ score = 0
    /\ candidate = NoCandidate
    /\ result = NoResult
    /\ NoVerification
    /\ NoRegistry
    /\ NoOverlap

\* lines 68-87: the tool is looked up, the agent id read or created
StartReview ==
    /\ pc = "idle" /\ op = "runReviewWizard"
    /\ clock < MaxRuns
    /\ clock' = clock + 1
    /\ \E slug \in WizardSlugs :
           IF ~findTool(slug)
           THEN /\ wizard' = [slug |-> slug, agentId |-> "", outcome |-> "exit",
                              error |-> "Tool not found"]
                /\ pc' = "idle"
                /\ UNCHANGED agentIdFile
           ELSE /\ IF agentIdFile.exists
                   THEN UNCHANGED agentIdFile
                   ELSE \E newId \in AgentIds :
                            agentIdFile' = [exists |-> TRUE, text |-> newId]
                /\ wizard' = [slug |-> slug, agentId |-> agentIdFile'.text,
                              outcome |-> "prompting", error |-> "none"]
                /\ pc' = "prompting"
    /\ answers' = NoAnswers
    /\ UNCHANGED <<op, scores, score, candidate, result, verifyVars, reviews, aggregate,
                   pendingFile>>
    /\ UNCHANGED registryVars
    /\ UNCHANGED overlapVars

\* lines 89-158: the prompts are answered; the proof hash is tested, the
\* pending reviews are read and searched, the review is appended and saved
AnswerPrompts ==
    /\ pc = "prompting" /\ op = "runReviewWizard"
    /\ \E ans \in WizardAnswers, line \in ProofLines :
           LET proofHashInput == Trim(line)
               pending == ReadPending(pendingFile)
               review == [tool |-> wizard.slug, agentId |-> wizard.agentId,
                          scores |-> ans.scores, proofHash |-> proofHashInput,
                          timestamp |-> clock, notes |-> ans.notes]
           IN  /\ answers' = [scores |-> ans.scores, notes |-> ans.notes,
                              proofHash |-> proofHashInput]
               /\ IF proofHashInput = <<>> \/ ~ProofRegexTest(proofHashInput)
                  THEN /\ wizard' = [wizard EXCEPT !.outcome = "exit",
                                                   !.error = "Proof hash is required"]
                       /\ UNCHANGED pendingFile
                  ELSE IF HasPending(pending, wizard.slug, wizard.agentId)
                  THEN /\ wizard' = [wizard EXCEPT !.outcome = "exit",
                                                   !.error = "You already have a pending review"]
                       /\ UNCHANGED pendingFile
                  ELSE /\ pendingFile' = [exists |-> TRUE, parses |-> TRUE,
                                          reviews |-> Append(pending, review)]
                       /\ wizard' = [wizard EXCEPT !.outcome = "saved"]
    /\ pc' = "idle"
    /\ UNCHANGED <<op, scores, score, candidate, result, verifyVars, reviews, aggregate,
                   agentIdFile, clock>>
    /\ UNCHANGED registryVars
    /\ UNCHANGED overlapVars

NextWizard == StartReview \/ AnswerPrompts

SpecWizard == InitWizard /\ [][NextWizard]_vars

(***************************************************************************)
(* loadRegistry and updateRegistry.  A file is absent, unreadable, no JSON *)
(* or a JSON document; JSON holds neither undefined nor NaN.               *)
(***************************************************************************)
JsonRegistries == {r \in RegistryCandidates : r.t \notin {"undefined", "nan"}}

RegistryFiles ==
    {NoRegistryFile,
     [exists |-> TRUE, readable |-> FALSE, parses |-> FALSE, doc |-> NoDoc],
     [exists |-> TRUE, readable |-> TRUE, parses |-> FALSE, doc |-> NoDoc]}
    \cup {[exists |-> TRUE, readable |-> TRUE, parses |-> TRUE, doc |-> r] :
            r \in JsonRegistries}

\* the registry in the local cache before an update
CachedRegistry == [version |-> Str(<<"1">>), tools |-> AsArray(<<baseTool>>)] @@ Obj

InitRegistry ==
    /\ pc = "call"
    /\ \/ /\ op = "loadRegistry"
          /\ registryFile \in RegistryFiles
          /\ localCache = NoCache
       \/ /\ op = "updateRegistry"
          /\ registryFile = NoRegistryFile
          /\ localCache \in {NoCache, [exists |-> TRUE, doc |-> CachedRegistry]}
    /\ remote = NoRemote
    /\ outcome = NoOutcome
    /\ scores = NoScores
    /\ score = 0
    /\ candidate = NoCandidate
    /\ result = NoResult
    /\ NoVerification
    /\ NoReview
    /\ NoOverlap

LoadRegistry ==
    /\ pc = "call" /\ op = "loadRegistry"
    /\ outcome' = loadRegistry(registryFile)
    /\ pc' = "done"
    /\ UNCHANGED <<op, scores, score, candidate, result, verifyVars, reviewVars,
                   registryFile, localCache, remote>>
    /\ UNCHANGED overlapVars

\* lib.ts 610-617: fetch throws or its promise is rejected
RemoteFetchRejects ==
    /\ pc = "call" /\ op = "updateRegistry"
    /\ remote' = [NoRemote EXCEPT !.settled = TRUE, !.rejected = TRUE]
    /\ outcome' = Throw("RegistryError", "Failed to fetch remote registry")
    /\ pc' = "done"
    /\ UNCHANGED <<op, scores, score, candidate, result, verifyVars, reviewVars,
                   registryFile, localCache>>
    /\ UNCHANGED overlapVars

\* lib.ts 611 and 619-623: fetch resolves
RemoteFetchResolves ==
    /\ pc = "call" /\ op = "updateRegistry"
    /\ \E r \in Responses :
           /\ remote' = [NoRemote EXCEPT !.settled = TRUE, !.ok = r.ok,
                                         !.status = r.status]
           /\ IF r.ok
              THEN /\ pc' = "reading"
                   /\ UNCHANGED outcome
              ELSE /\ outcome' = Throw("RegistryError", "Failed to fetch registry: HTTP")
                   /\ pc' = "done"
    /\ UNCHANGED <<op, scores, score, candidate, result, verifyVars, reviewVars,
                   registryFile, localCache>>
    /\ UNCHANGED overlapVars

\* lib.ts 626-633: response.json() is rejected
RemoteJsonRejects ==
    /\ pc = "reading" /\ op = "updateRegistry"
    /\ outcome' = Throw("RegistryError", "Remote registry contains invalid JSON")
    /\ pc' = "done"
    /\ UNCHANGED <<op, scores, score, candidate, result, verifyVars, reviewVars,
                   registryFile, localCache, remote>>
    /\ UNCHANGED overlapVars

\* lib.ts 627, 635-642 and 658-660: the body is validated, then saved
RemoteJsonResolves ==
    /\ pc = "reading" /\ op = "updateRegistry"
    /\ \E doc \in JsonRegistries :
           /\ remote' = [remote EXCEPT !.parses = TRUE, !.doc = doc]
           /\ outcome' = Validated(doc, "Remote registry validation failed")
           /\ IF outcome'.returned
              THEN localCache' = [exists |-> TRUE, doc |-> outcome'.doc]
              ELSE UNCHANGED localCache
    /\ pc' = "done"
    /\ UNCHANGED <<op, scores, score, candidate, result, verifyVars, reviewVars,
                   registryFile>>
    /\ UNCHANGED overlapVars

NextRegistry ==
    \/ LoadRegistry
    \/ RemoteFetchRejects
    \/ RemoteFetchResolves
    \/ RemoteJsonRejects
    \/ RemoteJsonResolves

SpecRegistry == InitRegistry /\ [][NextRegistry]_vars

(***************************************************************************)
(* Two wizard runs at once: two processes of runAddWizard, or two of       *)
(* runReviewWizard, in the same home directory.  Within a process the      *)
(* steps follow one another; the reading and the writing of the pending    *)
(* file are separate system calls, so the steps of the two processes       *)
(* interleave in any order.  writeFileSync is taken as one step.           *)
(***************************************************************************)
Procs == {1, 2}

AddSlugs == {GhSlug, <<"G", "h">>}

AddScores ==
    {[jsonOutput |-> 5, nonInteractive |-> 4, tokenEfficiency |-> 4,
      safetyFeatures |-> 5, pipelineFriendly |-> 4],
     [jsonOutput |-> 2, nonInteractive |-> 3, tokenEfficiency |-> 3,
      safetyFeatures |-> 4, pipelineFriendly |-> 3]}

\* the lines typed at the prompts of runAddWizard
AddAnswers ==
    {[name |-> n, description |-> <<"c", "l", "i">>, vendorName |-> <<"G", "H">>,
      vendorDomain |-> dm, repo |-> r, docs |-> <<>>,
      brew |-> IF r = <<>> THEN <<>> ELSE GhSlug, npm |-> <<>>,
      apt |-> <<>>, cargo |-> <<>>, categories |-> c, scores |-> sc] :
        n \in {<<"G", "H">>, <<" ">>},
        dm \in {GithubDomain, <<>>},
        r \in {<<>>, <<" ">> \o GhRepo},
        c \in {<<>>, <<"a", ",", " ", "b">>, <<" ", ",", " ">>},
        sc \in AddScores}

\* a record an earlier run left in the pending-tools file
EarlierTool ==
    assembleTool(<<"j", "q">>,
                 [name |-> <<"j", "q">>, description |-> <<"c", "l", "i">>,
                  vendorName |-> <<"j", "q">>, vendorDomain |-> GithubDomain,
                  repo |-> <<>>, docs |-> <<>>, brew |-> <<"j", "q">>, npm |-> <<>>,
                  apt |-> <<>>, cargo |-> <<>>, categories |-> <<>>,
                  scores |-> [dim \in AgentDims |-> 4]])

\* a review an earlier run of another agent left in the pending-reviews file
EarlierReview ==
    [tool |-> "gh", agentId |-> "agent-b", scores |-> ScoreVector(4, 4, 4, 4, 4),
     proofHash |-> ValidHash, timestamp |-> 0, notes |-> <<>>]

InitOverlap ==
    /\ pc = "overlap"
    /\ procs = [p \in Procs |-> [NoProc EXCEPT !.pc = "start"]]
    /\ \/ /\ op = "runAddWizard"
          /\ toolsFile \in {NoToolsFile,
                            [exists |-> TRUE, parses |-> FALSE, tools |-> <<>>],
                            [exists |-> TRUE, parses |-> TRUE, tools |-> <<EarlierTool>>]}
          /\ pendingFile = NoPending
          /\ agentIdFile = NoFile
       \/ /\ op = "runReviewWizard"
          /\ toolsFile = NoToolsFile
          /\ pendingFile \in {NoPending,
                              [exists |-> TRUE, parses |-> FALSE, reviews |-> <<>>],
                              [exists |-> TRUE, parses |-> TRUE,
                               reviews |-> <<EarlierReview>>]}
          /\ agentIdFile \in {NoFile} \cup {[exists |-> TRUE, text |-> id] : id \in AgentIds}
    /\ wizard = NoWizard
    /\ answers = NoAnswers
    /\ clock = 1
    /\ reviews = NoReviews
    /\ aggregate = NoAggregate
    /\ scores = NoScores
    /\ score = 0
    /\ candidate = NoCandidate
    /\ result = NoResult
    /\ NoVerification
    /\ NoRegistry

\* add.ts 37-122: the prompts are answered, the record is built and handed
\* to validateTool
AddPrompts(p) ==
    /\ op = "runAddWizard" /\ procs[p].pc = "start"
    /\ \E slug \in AddSlugs, ans \in AddAnswers :
           LET tool == assembleTool(slug, ans)
               next == AfterValidation(tool)
           IN  procs' = [procs EXCEPT ![p] =
                           [@ EXCEPT !.pc = next, !.record = tool,
                                     !.error = IF next = "exit"
                                               THEN "Validation failed" ELSE "none"]]
    /\ UNCHANGED <<op, pc, scores, score, candidate, result, verifyVars, reviewVars,
                   registryVars, toolsFile>>

\* add.ts 125-134: the pending-tools file is read
AddRead(p) ==
    /\ op = "runAddWizard" /\ procs[p].pc = "validated"
    /\ procs' = [procs EXCEPT ![p] =
                    [@ EXCEPT !.pc = "read", !.read = ReadPendingTools(toolsFile)]]
    /\ UNCHANGED <<op, pc, scores, score, candidate, result, verifyVars, reviewVars,
                   registryVars, toolsFile>>

\* add.ts 135-138: the record is pushed onto what was read, the file written
AddWrite(p) ==
    /\ op = "runAddWizard" /\ procs[p].pc = "read"
    /\ toolsFile' = [exists |-> TRUE, parses |-> TRUE,
                     tools |-> Append(procs[p].read, procs[p].record)]
    /\ procs' = [procs EXCEPT ![p] = [@ EXCEPT !.pc = "saved"]]
    /\ UNCHANGED <<op, pc, scores, score, candidate, result, verifyVars, reviewVars,
                   registryVars>>

\* review.ts 68-111: the tool is looked up, the agent id read or created,
\* the prompts are answered and the proof hash is tested
ReviewPrompts(p) ==
    /\ op = "runReviewWizard" /\ procs[p].pc = "start"
    /\ \E slug \in WizardSlugs, ans \in WizardAnswers, line \in {ValidHash, <<>>} :
           IF ~findTool(slug)
           THEN /\ procs' = [procs EXCEPT ![p] =
                               [@ EXCEPT !.pc = "exit", !.slug = slug,
                                         !.error = "Tool not found"]]
                /\ UNCHANGED agentIdFile
           ELSE /\ IF agentIdFile.exists
                   THEN UNCHANGED agentIdFile
                   ELSE \E newId \in AgentIds :
                            agentIdFile' = [exists |-> TRUE, text |-> newId]
                /\ LET proofHashInput == prompt(line)
                       refused == proofHashInput = <<>> \/ ~ProofRegexTest(proofHashInput)
                       review == [tool |-> slug, agentId |-> agentIdFile'.text,
                                  scores |-> ans.scores, proofHash |-> proofHashInput,
                                  timestamp |-> 0, notes |-> ans.notes]
                   IN  procs' = [procs EXCEPT ![p] =
                                   [@ EXCEPT !.pc = IF refused THEN "exit" ELSE "validated",
                                             !.slug = slug,
                                             !.agentId = agentIdFile'.text,
                                             !.record = review,
                                             !.error = IF refused
                                                       THEN "Proof hash is required"
                                                       ELSE "none"]]
    /\ UNCHANGED <<op, pc, scores, score, candidate, result, verifyVars, reviews,
                   aggregate, pendingFile, wizard, answers, clock, registryVars,
                   toolsFile>>

\* review.ts 116-140: the pending reviews are read and searched, the review
\* gets its timestamp
ReviewRead(p) ==
    /\ op = "runReviewWizard" /\ procs[p].pc = "validated"
    /\ LET pending == ReadPending(pendingFile)
       IN  IF HasPending(pending, procs[p].slug, procs[p].agentId)
           THEN /\ procs' = [procs EXCEPT ![p] =
                               [@ EXCEPT !.pc = "exit",
                                         !.error = "You already have a pending review"]]
                /\ UNCHANGED clock
           ELSE /\ procs' = [procs EXCEPT ![p] =
                               [@ EXCEPT !.pc = "read", !.read = pending,
                                         !.record = [@ EXCEPT !.timestamp = clock]]]
                /\ clock' = clock + 1
    /\ UNCHANGED <<op, pc, scores, score, candidate, result, verifyVars, reviews,
                   aggregate, agentIdFile, pendingFile, wizard, answers, registryVars,
                   toolsFile>>

\* review.ts 145-149: the review is pushed onto what was read, the file written
ReviewWrite(p) ==
    /\ op = "runReviewWizard" /\ procs[p].pc = "read"
    /\ pendingFile' = [exists |-> TRUE, parses |-> TRUE,
                       reviews |-> Append(procs[p].read, procs[p].record)]
    /\ procs' = [procs EXCEPT ![p] = [@ EXCEPT !.pc = "saved"]]
    /\ UNCHANGED <<op, pc, scores, score, candidate, result, verifyVars, reviews,
                   aggregate, agentIdFile, wizard, answers, clock, registryVars,
                   toolsFile>>

NextOverlap ==
    \E p \in Procs :
        \/ AddPrompts(p)
        \/ AddRead(p)
        \/ AddWrite(p)
        \/ ReviewPrompts(p)
        \/ ReviewRead(p)
        \/ ReviewWrite(p)

SpecOverlap == InitOverlap /\ [][NextOverlap]_vars

(***************************************************************************)
(* C1: on every vector with dimensions in 1..5, computeAgentScore returns  *)
(* the integer nearest to (3*jsonOutput + 3*nonInteractive +               *)
(* 2*tokenEfficiency + safetyFeatures + pipelineFriendly) / 50 * 10 and    *)
(* computeReviewScore the integer nearest to (sum of the five) / 25 * 10,  *)
(* halves rounded up; both lie in 1..10, the all-1 vector gives 2 and the  *)
(* all-5 vector gives 10.                                                  *)
(***************************************************************************)
C1_ScoreFormula ==
    pc = "done" =>
        /\ score \in 1..10
        /\ op = "computeAgentScore" =>
               LET w == 3 * scores.jsonOutput + 3 * scores.nonInteractive
                        + 2 * scores.tokenEfficiency + scores.safetyFeatures
                        + scores.pipelineFriendly
               IN  /\ (2 * score - 1) * 50 <= 2 * 10 * w
                   /\ 2 * 10 * w < (2 * score + 1) * 50
        /\ op = "computeReviewScore" =>
               LET w == scores.jsonParseable + scores.errorClarity
                        + scores.authSimplicity + scores.idempotency
                        + scores.docsSufficient
               IN  /\ (2 * score - 1) * 25 <= 2 * 10 * w
                   /\ 2 * 10 * w < (2 * score + 1) * 25
        /\ (\A d \in DOMAIN scores : scores[d] = 1) => score = 2
        /\ (\A d \in DOMAIN scores : scores[d] = 5) => score = 10

C1_Witness ==
    /\ pc = "done" /\ op = "computeAgentScore"
    /\ scores = [jsonOutput |-> 5, nonInteractive |-> 3, tokenEfficiency |-> 4,
                 safetyFeatures |-> 2, pipelineFriendly |-> 3]
    /\ score = 7

(***************************************************************************)
(* The field rules as the specification states them, for the claims below. *)
(***************************************************************************)
IsNonEmptyStr(x) == x.t = "string" /\ Len(x.s) > 0

IsBool(x) == x.t = "boolean"

IsIntegerIn(x, lo, hi) == x.t = "number" /\ \E k \in lo..hi : x.n = k * x.d

IsNumberIn(x, lo, hi) == x.t = "number" /\ lo * x.d <= x.n /\ x.n <= hi * x.d

MatchesSlugFormat(x) ==
    x.t = "string" /\ Len(x.s) > 0 /\ \A i \in 1..Len(x.s) : x.s[i] \in SlugChars

WellFormedTool(tl) ==
    /\ tl.t = "object"
    /\ IsNonEmptyStr(tl.slug) /\ MatchesSlugFormat(tl.slug)
    /\ IsNonEmptyStr(tl.name) /\ IsNonEmptyStr(tl.description)
    /\ IsNumberIn(tl.agentScore, 1, 10)
    /\ tl.tier.t = "string" /\ tl.tier.s \in validTiers
    /\ tl.categories.t = "array" /\ tl.categories.n > 0
    /\ tl.vendor.t = "object"
    /\ IsNonEmptyStr(tl.vendor.name) /\ IsNonEmptyStr(tl.vendor.domain)
    /\ IsBool(tl.vendor.verified)
    /\ tl.install.t = "object"
    /\ tl.capabilities.t = "object"
    /\ IsBool(tl.capabilities.jsonOutput) /\ IsBool(tl.capabilities.idempotent)
    /\ IsBool(tl.capabilities.interactive) /\ IsBool(tl.capabilities.streaming)
    /\ tl.capabilities.auth.t = "array"

Messages(errors) == {errors[i].msg : i \in 1..Len(errors)}

CountMsg(errors, m) == Cardinality({i \in 1..Len(errors) : errors[i].msg = m})

(***************************************************************************)
(* C2: validateTool on a fully well-formed record returns exactly          *)
(* {valid: true, errors: []}, whether or not the optional repo, docs and   *)
(* agentScores are present.                                                *)
(***************************************************************************)
C2_WellFormedAccepted ==
    (pc = "done" /\ op = "validateTool" /\ WellFormedTool(candidate)) =>
        /\ ~result.threw
        /\ result.valid
        /\ Len(result.errors) = 0

C2_Witness ==
    /\ pc = "done" /\ op = "validateTool"
    /\ WellFormedTool(candidate)
    /\ candidate.repo.t = "undefined"
    /\ candidate.docs.t = "undefined"
    /\ candidate.agentScores.t = "undefined"
    /\ \A k \in InstallKeys : candidate.install.m[k].t = "undefined"
    /\ result.valid

(***************************************************************************)
(* C3: validateTool, validateAgentScores and validateRegistry never throw: *)
(* every call returns a result, and a candidate that is no object, or a    *)
(* registry whose tools array holds null or a non-object, gets             *)
(* valid = false.                                                          *)
(***************************************************************************)
C3_NeverThrows ==
    pc = "done" =>
        /\ ~result.threw
        /\ candidate.t # "object" => ~result.valid
        /\ (/\ op = "validateRegistry"
            /\ candidate.t = "object"
            /\ candidate.tools.t = "array"
            /\ \E i \in 1..Len(candidate.tools.items) :
                   candidate.tools.items[i].t # "object")
           => ~result.valid

(***************************************************************************)
(* C4: for an object candidate validateTool reports every violated field   *)
(* rule with its own message, so k violated rules give at least k          *)
(* messages.  The rules on the properties of vendor and of capabilities    *)
(* apply when that object is there, and the slug format rule when the slug *)
(* is a string.                                                            *)
(***************************************************************************)
ViolatedRules(tl) ==
    LET rule(violated, m) == IF violated THEN {m} ELSE {}
    IN  rule(~IsNonEmptyStr(tl.slug), "Missing or invalid field: slug")
        \cup rule(~IsNonEmptyStr(tl.name), "Missing or invalid field: name")
        \cup rule(~IsNonEmptyStr(tl.description),
                  "Missing or invalid field: description")
        \cup rule(tl.slug.t = "string" /\ ~MatchesSlugFormat(tl.slug),
                  "Slug must be lowercase alphanumeric with hyphens only")
        \cup rule(~IsIntegerIn(tl.agentScore, 1, 10),
                  "agentScore must be a number between 1 and 10")
        \cup rule(~(tl.tier.t = "string" /\ tl.tier.s \in validTiers),
                  "tier must be one of: verified, community, unverified")
        \cup rule(~(tl.categories.t = "array" /\ tl.categories.n > 0),
                  "categories must be a non-empty array")
        \cup rule(tl.vendor.t \notin {"object", "array"}, "vendor must be an object")
        \cup rule(tl.vendor.t = "object" /\ ~IsNonEmptyStr(tl.vendor.name),
                  "vendor.name is required")
        \cup rule(tl.vendor.t = "object" /\ ~IsNonEmptyStr(tl.vendor.domain),
                  "vendor.domain is required")
        \cup rule(tl.vendor.t = "object" /\ ~IsBool(tl.vendor.verified),
                  "vendor.verified must be boolean")
        \cup rule(tl.install.t \notin {"object", "array"}, "install must be an object")
        \cup rule(tl.capabilities.t \notin {"object", "array"},
                  "capabilities must be an object")
        \cup rule(tl.capabilities.t = "object" /\ ~IsBool(tl.capabilities.jsonOutput),
                  "capabilities.jsonOutput must be boolean")
        \cup rule(tl.capabilities.t = "object" /\ ~IsBool(tl.capabilities.idempotent),
                  "capabilities.idempotent must be boolean")
        \cup rule(tl.capabilities.t = "object" /\ ~IsBool(tl.capabilities.interactive),
                  "capabilities.interactive must be boolean")
        \cup rule(tl.capabilities.t = "object" /\ ~IsBool(tl.capabilities.streaming),
                  "capabilities.streaming must be boolean")
        \cup rule(tl.capabilities.t = "object" /\ tl.capabilities.auth.t # "array",
                  "capabilities.auth must be an array")

C4_AccumulatesAllRules ==
    (pc = "done" /\ op = "validateTool" /\ candidate.t = "object") =>
        /\ ViolatedRules(candidate) \subseteq Messages(result.errors)
        /\ Len(result.errors) >= Cardinality(ViolatedRules(candidate))

(***************************************************************************)
(* C5: validateRegistry on a tools array in which a slug string occurs k   *)
(* times returns valid = false with exactly k-1 "Duplicate slug" errors    *)
(* for that slug; pairwise distinct slugs give no such error.              *)
(***************************************************************************)
SlugOf(entry) == IF entry.t = "object" THEN entry.slug ELSE Undef

Occurrences(items, sl) ==
    Cardinality({i \in 1..Len(items) :
                    SlugOf(items[i]).t = "string" /\ SlugOf(items[i]).s = sl})

SlugStrings(items) ==
    {SlugOf(items[i]).s : i \in {j \in 1..Len(items) : SlugOf(items[j]).t = "string"}}

DuplicateErrors(errors, sl) ==
    Cardinality({i \in 1..Len(errors) :
                    errors[i].msg = "Duplicate slug: " /\ errors[i].arg = sl})

C5_DuplicateSlugs ==
    (/\ pc = "done" /\ op = "validateRegistry"
     /\ candidate.t = "object" /\ candidate.tools.t = "array") =>
        LET items == candidate.tools.items
        IN  /\ \A sl \in SlugStrings(items) :
                   Occurrences(items, sl) > 1 =>
                       /\ ~result.threw
                       /\ ~result.valid
                       /\ DuplicateErrors(result.errors, sl)
                              = Occurrences(items, sl) - 1
            /\ (\A sl \in SlugStrings(items) : Occurrences(items, sl) = 1)
                   => CountMsg(result.errors, "Duplicate slug: ") = 0

(***************************************************************************)
(* C6: validateAgentScores returns valid = true iff each of the five       *)
(* dimensions is present and an integer in 1..5; on an object candidate a  *)
(* missing, out-of-range or fractional dimension gives exactly one error   *)
(* for that dimension and an acceptable one gives none.                    *)
(***************************************************************************)
C6_AgentScoresValidity ==
    (pc = "done" /\ op = "validateAgentScores") =>
        /\ ~result.threw
        /\ result.valid <=>
               /\ candidate.t = "object"
               /\ \A dim \in AgentDims : IsIntegerIn(candidate[dim], 1, 5)
        /\ candidate.t = "object" =>
               \A dim \in AgentDims :
                   CountMsg(result.errors,
                            "agentScores." \o dim \o " must be an integer 1-5")
                       = IF IsIntegerIn(candidate[dim], 1, 5) THEN 0 ELSE 1

C6_Witness ==
    /\ pc = "done" /\ op = "validateAgentScores"
    /\ candidate.t = "object"
    /\ candidate.jsonOutput = Num(7, 2)
    /\ candidate.nonInteractive.t = "undefined"
    /\ candidate.tokenEfficiency = IntV(6)
    /\ candidate.safetyFeatures = IntV(5)
    /\ candidate.pipelineFriendly = IntV(1)
    /\ ~result.valid
    /\ Len(result.errors) = 3

(***************************************************************************)
(* C7: validateTool accepts agentScore only when it is an integer in       *)
(* 1..10: any other value gives valid = false and an agentScore error.     *)
(***************************************************************************)
C7_AgentScoreIntegerRange ==
    (/\ pc = "done" /\ op = "validateTool" /\ candidate.t = "object"
     /\ ~IsIntegerIn(candidate.agentScore, 1, 10)) =>
        /\ ~result.valid
        /\ "agentScore must be a number between 1 and 10" \in Messages(result.errors)

(***************************************************************************)
(* C8: in every result verifyTool returns, with p the number of checks     *)
(* that passed, score is round(p / 4 * 100), one of 0, 25, 50, 75, 100,    *)
(* and recommendation is verified iff p = 4, community iff p is 2 or 3,    *)
(* unverified iff p is 0 or 1.                                             *)
(***************************************************************************)
Passed(v) == Cardinality({c \in DOMAIN v.checks : v.checks[c].passed})

C8_ScoreAndRecommendation ==
    verification.returned =>
        LET p == Passed(verification)
        IN  /\ DOMAIN verification.checks = CheckNames
            /\ verification.score * 4 = p * 100
            /\ verification.recommendation = "verified" <=> p = 4
            /\ verification.recommendation = "community" <=> p \in {2, 3}
            /\ verification.recommendation = "unverified" <=> p \in {0, 1}

C8_Witness ==
    /\ verification.returned
    /\ Passed(verification) = 3
    /\ verification.score = 75
    /\ verification.recommendation = "community"

(***************************************************************************)
(* C9: when the lookup fails (the fetcher throws or rejects, or the body   *)
(* cannot be read), verifyTool still returns a complete result, with       *)
(* repoExists failed and the detail "Failed to fetch repo info"; the       *)
(* error does not reach the caller.                                        *)
(***************************************************************************)
C9_NetworkFailureIsAFailedCheck ==
    (pc = "done" /\ lookup \in {"rejected", "unreadable"}) =>
        /\ verification.returned
        /\ ~verification.threw
        /\ DOMAIN verification.checks = CheckNames
        /\ ~verification.checks.repoExists.passed
        /\ verification.checks.repoExists.detail.msg = "Failed to fetch repo info"
        /\ verification.score \in 0..100
        /\ verification.recommendation \in {"verified", "community", "unverified"}

C9_Witness ==
    /\ pc = "done"
    /\ lookup = "rejected"
    /\ verification.returned
    /\ ~verification.checks.repoExists.passed
    /\ verification.checks.hasInstallMethod.passed
    /\ verification.score = 25

(***************************************************************************)
(* C10: for a tool without a repo field verifyTool returns repoExists      *)
(* failed with the detail "No repo URL provided", repoActive and           *)
(* domainMatch failed, and hasInstallMethod passed iff some install value  *)
(* is a non-empty string; the HTTP client is not consulted.                *)
(***************************************************************************)
C10_NoRepoField ==
    (pc = "done" /\ op = "verifyTool" /\ candidate.repo.t = "undefined") =>
        /\ verification.returned
        /\ ~verification.checks.repoExists.passed
        /\ verification.checks.repoExists.detail.msg = "No repo URL provided"
        /\ ~verification.checks.repoActive.passed
        /\ ~verification.checks.domainMatch.passed
        /\ verification.checks.hasInstallMethod.passed
               <=> \E k \in InstallKeys : IsNonEmptyStr(candidate.install.m[k])
        /\ fetched = <<>>
        /\ lookup = "none"

C10_Witness ==
    /\ pc = "done" /\ op = "verifyTool"
    /\ candidate.repo.t = "undefined"
    /\ verification.returned
    /\ verification.checks.hasInstallMethod.passed
    /\ ~verification.checks.repoExists.passed
    /\ verification.score = 25

(***************************************************************************)
(* C11: aggregateReviews returns null iff the list is empty; for a list    *)
(* that is not empty the result's count is the number of reviews and its   *)
(* dimensions map has exactly the five review dimensions.                  *)
(***************************************************************************)
C11_NullIffEmpty ==
    (pc = "done" /\ op = "aggregateReviews") =>
        /\ aggregate.isNull <=> Len(reviews) = 0
        /\ Len(reviews) > 0 =>
               /\ aggregate.count = Len(reviews)
               /\ DOMAIN aggregate.dimensions = ReviewDims

C11_Witness ==
    /\ pc = "done" /\ op = "aggregateReviews"
    /\ Len(reviews) = 1
    /\ ~aggregate.isNull
    /\ aggregate.count = 1
    /\ DOMAIN aggregate.dimensions = ReviewDims

(***************************************************************************)
(* C12: for a list that is not empty and every dimension, pct is the       *)
(* integer nearest to 100 * (reviews with a value of at least 4) /         *)
(* (reviews), halves rounded up, in 0..100; 4 is favorable and 3 is not:   *)
(* two reviews with the values 5 and 3 give pct = 50.                      *)
(***************************************************************************)
Favorable(rs, dim) == Cardinality({i \in 1..Len(rs) : rs[i].scores[dim] >= 4})

C12_FavorablePct ==
    (pc = "done" /\ op = "aggregateReviews" /\ Len(reviews) > 0) =>
        \A dim \in ReviewDims :
            LET pct == aggregate.dimensions[dim].pct
                g == Favorable(reviews, dim)
                n == Len(reviews)
            IN  /\ pct \in 0..100
                /\ (2 * pct - 1) * n <= 200 * g
                /\ 200 * g < (2 * pct + 1) * n
                /\ (n = 2 /\ {reviews[1].scores[dim], reviews[2].scores[dim]} = {5, 3})
                       => pct = 50
                /\ (n = 1 /\ reviews[1].scores[dim] = 4) => pct = 100
                /\ (n = 1 /\ reviews[1].scores[dim] = 3) => pct = 0

C12_Witness ==
    /\ pc = "done" /\ op = "aggregateReviews"
    /\ Len(reviews) = 2
    /\ reviews[1].scores.jsonParseable = 5
    /\ reviews[2].scores.jsonParseable = 3
    /\ aggregate.dimensions.jsonParseable.pct = 50

(***************************************************************************)
(* C13, as stated: one review whose five values are all 4 or 5 yields      *)
(* avgScore > 8 and pct = 100 for every dimension.                         *)
(***************************************************************************)
SingleFavorable ==
    /\ pc = "done" /\ op = "aggregateReviews"
    /\ Len(reviews) = 1
    /\ \A dim \in ReviewDims : reviews[1].scores[dim] >= 4

C13_SingleFavorableAbove8 ==
    SingleFavorable =>
        /\ NumGt(aggregate.avgScore, 8)
        /\ \A dim \in ReviewDims : aggregate.dimensions[dim].pct = 100

(***************************************************************************)
(* C13, amended: one review whose five values are all 4 or 5 yields        *)
(* avgScore >= 8, above 8 iff some value is 5 (exactly 8 when all are 4),  *)
(* and pct = 100 for every dimension.                                      *)
(***************************************************************************)
C13_SingleFavorableAtLeast8 ==
    SingleFavorable =>
        /\ ~NumLt(aggregate.avgScore, 8)
        /\ NumGt(aggregate.avgScore, 8) <=> \E dim \in ReviewDims : reviews[1].scores[dim] = 5
        /\ \A dim \in ReviewDims : aggregate.dimensions[dim].pct = 100

C13_Witness ==
    /\ SingleFavorable
    /\ \A dim \in ReviewDims : reviews[1].scores[dim] = 4
    /\ aggregate.avgScore.n = 8 * aggregate.avgScore.d
    /\ aggregate.dimensions.idempotency.pct = 100

(***************************************************************************)
(* C14: avgScore is the mean over the five dimensions of the per-dimension *)
(* means, divided by 5, scaled to 10 and rounded to an integer as          *)
(* computeReviewScore rounds, every review weighing the same: with T the   *)
(* sum of all values of all n reviews, the integer nearest to              *)
(* T / (25 * n) * 10.                                                      *)
(***************************************************************************)
AllValues(rs) ==
    LET RECURSIVE Upto(_)
        Upto(k) ==
            IF k = 0 THEN 0
            ELSE Upto(k - 1) + rs[k].scores.jsonParseable + rs[k].scores.errorClarity
                 + rs[k].scores.authSimplicity + rs[k].scores.idempotency
                 + rs[k].scores.docsSufficient
    IN  Upto(Len(rs))

C14_TwoStageIntegerScore ==
    (pc = "done" /\ op = "aggregateReviews" /\ Len(reviews) > 0) =>
        LET T == AllValues(reviews)
            n == Len(reviews)
            a == aggregate.avgScore
        IN  /\ IsInteger(a)
            /\ (2 * a.n - a.d) * 25 * n <= 2 * 10 * T * a.d
            /\ 2 * 10 * T * a.d < (2 * a.n + a.d) * 25 * n

(***************************************************************************)
(* C15: computeAgentScore and computeReviewScore are monotonic: raising    *)
(* one dimension of a vector with dimensions in 1..5, the others held      *)
(* fixed, never lowers the score.                                          *)
(***************************************************************************)
C15_Monotonic ==
    pc = "done" =>
        \A dim \in DOMAIN scores : \A v \in 1..5 :
            v > scores[dim] =>
                LET raised == [scores EXCEPT ![dim] = v]
                IN  /\ op = "computeAgentScore" => computeAgentScore(raised) >= score
                    /\ op = "computeReviewScore" => computeReviewScore(raised) >= score

C15_Witness ==
    /\ pc = "done" /\ op = "computeAgentScore"
    /\ scores = [jsonOutput |-> 3, nonInteractive |-> 3, tokenEfficiency |-> 3,
                 safetyFeatures |-> 3, pipelineFriendly |-> 3]
    /\ score = 6
    /\ computeAgentScore([scores EXCEPT !.jsonOutput = 5]) = 7
    /\ computeAgentScore([scores EXCEPT !.safetyFeatures = 4]) = 6

(***************************************************************************)
(* C16: a tool record that carries agentScores and is accepted by          *)
(* validateTool has a valid 1..5 vector as agentScores and an agentScore   *)
(* equal to computeAgentScore(agentScores).                                *)
(***************************************************************************)
DerivedScore(ags) ==
    computeAgentScore([dim \in AgentDims |-> ags[dim].n \div ags[dim].d])

C16_AgentScoreDerived ==
    (/\ pc = "done" /\ op = "validateTool" /\ result.valid
     /\ candidate.agentScores.t # "undefined") =>
        /\ validateAgentScores(candidate.agentScores).valid
        /\ candidate.agentScore = IntV(DerivedScore(candidate.agentScores))

(***************************************************************************)
(* C17: runReviewWizard saves a review only if the proof hash supplied is  *)
(* exactly 64 characters, each of them in [a-f0-9]: a run that ends with   *)
(* the review saved had such a hash, and so has every review in the        *)
(* pending file.                                                           *)
(***************************************************************************)
IsLowerHex64(s) ==
    /\ Len(s) = 64
    /\ \A i \in 1..Len(s) :
           s[i] \in {"0", "1", "2", "3", "4", "5", "6", "7", "8", "9",
                     "a", "b", "c", "d", "e", "f"}

C17_ProofHashFormat ==
    op = "runReviewWizard" =>
        /\ (pc = "idle" /\ wizard.outcome = "saved") => IsLowerHex64(answers.proofHash)
        /\ \A i \in 1..Len(pendingFile.reviews) :
               IsLowerHex64(pendingFile.reviews[i].proofHash)

(***************************************************************************)
(* C18: after any sequence of runs the pending file holds at most one      *)
(* review for each pair of tool and agentId, and a run for a pair that     *)
(* has a pending review ends with an error and leaves the file as it was.  *)
(***************************************************************************)
OnePerPair ==
    \A i, j \in 1..Len(pendingFile.reviews) :
        (/\ pendingFile.reviews[i].tool = pendingFile.reviews[j].tool
         /\ pendingFile.reviews[i].agentId = pendingFile.reviews[j].agentId) => i = j

DuplicateRejected ==
    (/\ pc = "prompting"
     /\ \E i \in 1..Len(pendingFile.reviews) :
            /\ pendingFile.reviews[i].tool = wizard.slug
            /\ pendingFile.reviews[i].agentId = wizard.agentId) =>
        /\ pendingFile' = pendingFile
        /\ wizard'.outcome = "exit"

C18_OnePendingReviewPerPair == []OnePerPair /\ [][DuplicateRejected]_vars

C18_Witness ==
    /\ pc = "idle" /\ op = "runReviewWizard"
    /\ wizard.outcome = "exit"
    /\ wizard.error = "You already have a pending review"
    /\ Len(pendingFile.reviews) = 2
    /\ pendingFile.reviews[2].tool = wizard.slug
    /\ pendingFile.reviews[2].agentId = wizard.agentId
    /\ pendingFile.reviews[1].tool # wizard.slug

(***************************************************************************)
(* C19: verifyTool never mutates the tool record it is given: no step of a *)
(* call changes tier, vendor.verified or any other field of the record,    *)
(* whatever the HTTP outcome and the recommendation.                       *)
(***************************************************************************)
C19_ToolNotMutated == [][op = "verifyTool" => candidate' = candidate]_vars

C19_Witness ==
    /\ pc = "done" /\ op = "verifyTool"
    /\ verification.returned
    /\ verification.recommendation = "unverified"
    /\ candidate.tier = Str(<<"v", "e", "r", "i", "f", "i", "e", "d">>)
    /\ candidate.vendor.verified = Bool(TRUE)
    /\ lookup = "read"

(***************************************************************************)
(* C20: in a run of verifyTool the HTTP client is invoked at most once,    *)
(* and only for a tool whose repo is a URL on the recognized host,         *)
(* github.com.                                                             *)
(***************************************************************************)
StartsWith(s, prefix) ==
    Len(s) >= Len(prefix) /\ SubSeq(s, 1, Len(prefix)) = prefix

OnGitHub(repo) ==
    /\ repo.t = "string"
    /\ \/ StartsWith(repo.s, <<"h", "t", "t", "p", "s", ":", "/", "/", "g", "i", "t",
                               "h", "u", "b", ".", "c", "o", "m", "/">>)
       \/ StartsWith(repo.s, <<"h", "t", "t", "p", ":", "/", "/", "g", "i", "t",
                               "h", "u", "b", ".", "c", "o", "m", "/">>)

C20_AtMostOneLookupOnGitHub ==
    op = "verifyTool" =>
        /\ Len(fetched) <= 1
        /\ fetched # <<>> => OnGitHub(candidate.repo)

(***************************************************************************)
(* C21: loadRegistry either returns the parsed document, which             *)
(* validateRegistry accepts, or throws a RegistryError, the cause being    *)
(* the first of: file not found, read failure, invalid JSON, schema        *)
(* validation failed; it throws no error of another type.                  *)
(***************************************************************************)
C21_LoadRegistryOutcome ==
    (pc = "done" /\ op = "loadRegistry") =>
        IF outcome.returned
        THEN /\ registryFile.exists /\ registryFile.readable /\ registryFile.parses
             /\ outcome.doc = registryFile.doc
             /\ ~validateRegistry(outcome.doc).threw
             /\ validateRegistry(outcome.doc).valid
        ELSE /\ outcome.error = "RegistryError"
             /\ outcome.message =
                    IF ~registryFile.exists THEN "Registry file not found"
                    ELSE IF ~registryFile.readable THEN "Failed to read registry file"
                    ELSE IF ~registryFile.parses
                    THEN "Registry file contains invalid JSON"
                    ELSE "Registry validation failed"

(***************************************************************************)
(* C22: runAddWizard hands the record it assembled to validateTool before  *)
(* it is persisted.  The pending-tools file changes only when a run writes *)
(* back what it read with its own record appended, that record is one      *)
(* validateTool accepts and its agentScore is what computeAgentScore       *)
(* returns for the scores entered; a run that ends with a validation       *)
(* failure leaves the file as it is.  Every record in the file is          *)
(* therefore an accepted one with a computed score.                        *)
(***************************************************************************)
EnteredScores(tool) == [dim \in AgentDims |-> tool.agentScores[dim].n]

ScoreComputed(tool) == tool.agentScore = IntV(computeAgentScore(EnteredScores(tool)))

C22_ValidatedBeforePersisted ==
    /\ [](\A i \in 1..Len(toolsFile.tools) :
              /\ validateTool(toolsFile.tools[i]).valid
              /\ ScoreComputed(toolsFile.tools[i]))
    /\ [][/\ toolsFile' # toolsFile =>
                \E p \in Procs :
                    /\ procs[p].pc = "read" /\ procs'[p].pc = "saved"
                    /\ toolsFile'.tools = Append(procs[p].read, procs[p].record)
                    /\ validateTool(procs[p].record).valid
                    /\ ScoreComputed(procs[p].record)
          /\ \A p \in Procs :
                 procs'[p].error = "Validation failed" /\ procs[p].error = "none"
                     => /\ toolsFile' = toolsFile
                        /\ procs'[p].pc = "exit"
                        /\ ~validateTool(procs'[p].record).valid]_vars

\* one run appended its accepted record to an earlier one while the other
\* run ended with a validation failure
C22_Witness ==
    \E p, q \in Procs :
        /\ procs[p].pc = "saved" /\ procs[q].error = "Validation failed"
        /\ Len(toolsFile.tools) = 2
        /\ toolsFile.tools[1] = EarlierTool
        /\ toolsFile.tools[2] = procs[p].record
        /\ procs[p].record.agentScore = IntV(9)

(***************************************************************************)
(* C23: when repoExists fails and no network error happened, its detail    *)
(* tells three cases apart: no repo URL was provided, a repo URL is        *)
(* present but not on the recognized host, and the host returned the       *)
(* non-success status N, the detail then holding N.  So the detail is "No  *)
(* repo URL provided" exactly for the tools without a repo URL.            *)
(***************************************************************************)
C23_FailureDetailDistinguishes ==
    (/\ pc = "done" /\ op = "verifyTool" /\ verification.returned
     /\ ~verification.checks.repoExists.passed
     /\ verification.checks.repoExists.detail.msg # "Failed to fetch repo info")
        => LET detail == verification.checks.repoExists.detail
           IN  /\ detail.msg = "No repo URL provided" <=> ~Truthy(candidate.repo)
               /\ lookup = "status"
                      => detail.msg = "GitHub returned " /\ detail.num = response.status

(***************************************************************************)
(* C24: repoActive is evaluated only when repoExists succeeded and the     *)
(* response carries a last-push timestamp, and then it passes iff that     *)
(* timestamp lies within the most recent 365 days before the evaluation    *)
(* time.  When the timestamp is absent repoActive stays failed while       *)
(* repoExists stays passed, and a missing star count does not make the     *)
(* call fail.                                                              *)
(***************************************************************************)
EvaluationTime == MakeTime(now.y, now.m, now.d, now.secs)

Within365Days(date) == date.valid /\ date.t > EvaluationTime - 365 * 86400

LastPush(body) ==
    IF Prop(body, "pushed_at").t = "string" THEN NewDate(Prop(body, "pushed_at").s)
    ELSE InvalidDate

C24_ActiveWithin365Days ==
    (pc = "done" /\ op = "verifyTool")
        => /\ verification.checks.repoActive # InitialChecks.repoActive
                  => /\ verification.checks.repoExists.passed
                     /\ lookup = "read" /\ Truthy(Prop(data, "pushed_at"))
           /\ (lookup = "read" /\ data.t = "object")
                  => IF Truthy(Prop(data, "pushed_at"))
                     THEN /\ verification.returned
                          /\ verification.checks.repoActive.passed
                                 <=> Within365Days(LastPush(data))
                     ELSE /\ verification.checks.repoActive = InitialChecks.repoActive
                          /\ verification.checks.repoExists.passed

\* the part of C24 that does not depend on the length of the year
C24_AbsentFieldsTolerated ==
    (pc = "done" /\ op = "verifyTool" /\ lookup = "read" /\ data.t = "object")
        => /\ verification.returned
           /\ ~Truthy(Prop(data, "pushed_at"))
                  => /\ verification.checks.repoActive = InitialChecks.repoActive
                     /\ verification.checks.repoExists.passed
           /\ (LastPush(data).valid /\ ~Truthy(Prop(data, "stargazers_count")))
                  => verification.checks.repoExists.passed

(***************************************************************************)
(* C25: when repoExists succeeded, domainMatch passes iff the lower-cased  *)
(* owner segment of the repo URL is one of the variants derived from       *)
(* vendor.domain: the base name (the domain without a known top-level      *)
(* suffix, lower-cased), the base name without its dots, the base name     *)
(* with hyphens for its dots, and the first dot-delimited segment; when it *)
(* is none of them domainMatch fails with a detail naming the owner.  A    *)
(* URL without an owner segment leaves domainMatch failed.                 *)
(***************************************************************************)
\* the segment that follows github.com/ in the URL, lower-cased; <<>> if none
OwnerSegment(repoUrl) ==
    LET i == IndexOf(repoUrl, GithubComSlash)
        rest == SubSeq(repoUrl, i + Len(GithubComSlash), Len(repoUrl))
        stop == IndexOf(rest, <<"/">>)
    IN  IF i = 0 THEN <<>>
        ELSE ToLowerCase(IF stop = 0 THEN rest ELSE SubSeq(rest, 1, stop - 1))

BaseName(domain) == ToLowerCase(StripTld(domain))

DomainVariants(domain) ==
    {BaseName(domain), ReplaceDots(BaseName(domain), <<>>),
     ReplaceDots(BaseName(domain), <<"-">>), FirstSegment(ToLowerCase(domain))}

C25_DomainMatchVariants ==
    (/\ pc = "done" /\ op = "verifyTool" /\ verification.returned
     /\ verification.checks.repoExists.passed)
        => LET owner == OwnerSegment(candidate.repo.s)
               domainMatch == verification.checks.domainMatch
           IN  /\ domainMatch.passed
                      <=> (owner # <<>> /\ owner \in DomainVariants(candidate.vendor.domain.s))
               /\ (owner # <<>> /\ ~domainMatch.passed)
                      => /\ domainMatch.detail.msg = "GitHub org doesn't match"
                         /\ domainMatch.detail.arg = owner
               /\ owner = <<>> => domainMatch = InitialChecks.domainMatch

\* the owner docs-github matches the domain Docs.github.com by the variant
\* with hyphens
C25_Witness ==
    /\ pc = "done" /\ op = "verifyTool" /\ verification.returned
    /\ verification.checks.repoExists.passed
    /\ verification.checks.domainMatch.passed
    /\ candidate.vendor.domain.s = <<"D", "o", "c", "s", ".">> \o GithubCom
    /\ OwnerSegment(candidate.repo.s) = <<"d", "o", "c", "s", "-", "g", "i", "t", "h", "u", "b">>

\* an owner that is none of the variants is named in the detail
C25_WitnessNoMatch ==
    /\ pc = "done" /\ op = "verifyTool" /\ verification.returned
    /\ verification.checks.repoExists.passed
    /\ ~verification.checks.domainMatch.passed
    /\ verification.checks.domainMatch.detail.arg = <<"c", "l", "i">>

(***************************************************************************)
(* C26: validateRegistry validates every record of the tools array and     *)
(* adds, for each record validateTool does not accept, one error prefixed  *)
(* with the record's slug, or with "unknown" when the slug is missing or   *)
(* invalid (no string, empty, or not of the slug format).  It is stated    *)
(* here for the registries whose records are all objects.                  *)
(***************************************************************************)
IsToolError(e) == e.msg = "Tool"

NotAccepted(entry) == ~validateTool(entry).valid

AttributedTo(entry) ==
    IF MatchesSlugFormat(SlugOf(entry)) THEN SlugOf(entry).s ELSE Unknown

C26_ErrorsAttributed ==
    (/\ pc = "done" /\ op = "validateRegistry"
     /\ candidate.t = "object" /\ candidate.tools.t = "array"
     /\ \A i \in 1..Len(candidate.tools.items) : candidate.tools.items[i].t = "object")
        => LET failed == SelectSeq(candidate.tools.items, NotAccepted)
               toolErrors == SelectSeq(result.errors, IsToolError)
           IN  /\ ~result.threw
               /\ Len(toolErrors) = Len(failed)
               /\ \A i \in 1..Len(failed) :
                      /\ toolErrors[i].arg = AttributedTo(failed[i])
                      /\ toolErrors[i].sub = validateTool(failed[i]).errors

\* what holds of the code: the prefix is the slug whenever it is truthy
C26_PrefixIsTruthySlug ==
    (/\ pc = "done" /\ op = "validateRegistry"
     /\ candidate.t = "object" /\ candidate.tools.t = "array"
     /\ \A i \in 1..Len(candidate.tools.items) : candidate.tools.items[i].t = "object")
        => LET failed == SelectSeq(candidate.tools.items, NotAccepted)
               toolErrors == SelectSeq(result.errors, IsToolError)
           IN  /\ ~result.threw
               /\ Len(toolErrors) = Len(failed)
               /\ \A i \in 1..Len(failed) :
                      /\ toolErrors[i].arg = IF Truthy(SlugOf(failed[i]))
                                             THEN ToStr(SlugOf(failed[i])) ELSE Unknown
                      /\ toolErrors[i].sub = validateTool(failed[i]).errors

(***************************************************************************)
(* C27: for every tool validateTool accepts and every outcome of the lookup *)
(* (rejection, non-success status, success with any body, failure while    *)
(* reading the body, unparseable last-push timestamp) the result of        *)
(* verifyTool has repoActive.passed => repoExists.passed and               *)
(* domainMatch.passed => repoExists.passed.                                *)
(***************************************************************************)
C27_DependentChecksNeedRepoExists ==
    (pc = "done" /\ op = "verifyTool" /\ verification.returned)
        => /\ verification.checks.repoActive.passed
                  => verification.checks.repoExists.passed
           /\ verification.checks.domainMatch.passed
                  => verification.checks.repoExists.passed

\* the body was read and repoExists set to passed, then the timestamp
\* "soon" made toISOString throw and the catch block failed repoExists
C27_Witness ==
    /\ pc = "done" /\ op = "verifyTool" /\ verification.returned
    /\ lookup = "read" /\ data.t = "object"
    /\ Prop(data, "pushed_at") = Str(<<"s", "o", "o", "n">>)
    /\ ~verification.checks.repoExists.passed
    /\ ~verification.checks.repoActive.passed
    /\ ~verification.checks.domainMatch.passed
    /\ OwnerSegment(candidate.repo.s) \in DomainVariants(candidate.vendor.domain.s)

(***************************************************************************)
(* C28: a tool whose repo is absent or is no GitHub URL can pass at most   *)
(* the hasInstallMethod check: verifyTool returns a score of at most 25    *)
(* and the recommendation unverified, whatever the vendor, the install     *)
(* methods and the stored tier.  It is stated here for a repo that is      *)
(* absent or a string.                                                     *)
(***************************************************************************)
C28_NoGitHubRepoAtMost25 ==
    (/\ pc = "done" /\ op = "verifyTool"
     /\ \/ ~Truthy(candidate.repo)
        \/ candidate.repo.t = "string" /\ ~OnGitHub(candidate.repo))
        => /\ verification.returned
           /\ verification.score <= 25
           /\ verification.recommendation = "unverified"
           /\ \A name \in CheckNames \ {"hasInstallMethod"} :
                  ~verification.checks[name].passed

\* what holds of the code: the bound holds for a repo that is absent or does
\* not contain the text github.com
C28_NoGitHubTextAtMost25 ==
    (/\ pc = "done" /\ op = "verifyTool"
     /\ \/ ~Truthy(candidate.repo)
        \/ candidate.repo.t = "string" /\ ~Includes(candidate.repo.s, GithubCom))
        => /\ verification.returned
           /\ verification.score <= 25
           /\ verification.recommendation = "unverified"
           /\ fetched = <<>>

(***************************************************************************)
(* C29: updateRegistry overwrites the local registry cache only with a     *)
(* document that was fetched with a success status, then parsed as JSON,   *)
(* then accepted by validateRegistry.  When the fetch is rejected, the     *)
(* status is not OK, the body is no JSON or the validation fails, the      *)
(* cache file is left as it was.                                           *)
(***************************************************************************)
CacheBefore == {NoCache, [exists |-> TRUE, doc |-> CachedRegistry]}

Accepts(doc) == ~validateRegistry(doc).threw /\ validateRegistry(doc).valid

C29_CacheOnlyValidated ==
    /\ []((pc = "done" /\ op = "updateRegistry")
              => IF /\ remote.settled /\ ~remote.rejected /\ remote.ok
                    /\ remote.parses /\ Accepts(remote.doc)
                 THEN /\ outcome.returned
                      /\ localCache = [exists |-> TRUE, doc |-> remote.doc]
                 ELSE /\ ~outcome.returned
                      /\ localCache \in CacheBefore)
    /\ [][localCache' # localCache
              => /\ pc = "reading" /\ pc' = "done"
                 /\ remote.settled /\ ~remote.rejected /\ remote.ok
                 /\ remote'.parses /\ Accepts(remote'.doc)
                 /\ localCache' = [exists |-> TRUE, doc |-> remote'.doc]]_vars

\* a fetched registry of two tools replaced the cached one
C29_Witness ==
    /\ pc = "done" /\ op = "updateRegistry"
    /\ outcome.returned
    /\ localCache = [exists |-> TRUE, doc |-> remote.doc]
    /\ Len(localCache.doc.tools.items) = 2
    /\ localCache.doc # CachedRegistry

\* a fetched document that validateRegistry does not accept left the cached
\* registry in place
C29_WitnessRefused ==
    /\ pc = "done" /\ op = "updateRegistry"
    /\ remote.parses /\ ~Accepts(remote.doc)
    /\ localCache = [exists |-> TRUE, doc |-> CachedRegistry]

(***************************************************************************)
(* C30: when two wizard runs overlap (two of runReviewWizard or two of     *)
(* runAddWizard), each reading the pending file, appending its record and  *)
(* writing the file back, then after both have finished every record that  *)
(* a run reported as saved is in the pending file, and the pending-reviews *)
(* file holds at most one review per (tool, agentId) pair.                 *)
(***************************************************************************)
BothFinished == \A p \in Procs : procs[p].pc \in {"saved", "exit"}

PendingRecords ==
    IF op = "runAddWizard" THEN ReadPendingTools(toolsFile) ELSE ReadPending(pendingFile)

Kept(record) == \E i \in 1..Len(PendingRecords) : PendingRecords[i] = record

C30_OverlappingRunsKeepRecords ==
    (op \in {"runAddWizard", "runReviewWizard"} /\ BothFinished)
        => /\ \A p \in Procs : procs[p].pc = "saved" => Kept(procs[p].record)
           /\ OnePerPair

\* the part of C30 that holds of the code: overlapping runs never leave two
\* reviews of one (tool, agentId) pair in the pending-reviews file
C30_OverlapOnePerPair == op = "runReviewWizard" => OnePerPair

=============================================================================
